---- MODULE Spec2Model ----
(***************************************************************************)
(* Model of the CT/PET study-selection pipeline (gradient_selection):      *)
(*   - llm.py         _parse_json, _extract_with_retry                     *)
(*   - extraction.py  _extract_pair, run_extraction                        *)
(*   - selection.py   _parse_json_cell, _list_empty, _contains_chest,      *)
(*                    evaluate_row                                         *)
(* Python values are tagged records:                                       *)
(*   None  [t |-> "null"]          float nan  [t |-> "nan"]                *)
(*   bool  [t |-> "bool", b |-> _] int        [t |-> "num", n |-> _]       *)
(*   str   [t |-> "str", s |-> _]  list       [t |-> "list", items |-> _]  *)
(*   dict  [t |-> "dict", kv |-> sequence of [k |-> key, v |-> value]]     *)
(* A dict keeps its insertion order, as Python's does.                     *)
(***************************************************************************)
EXTENDS Integers, Sequences, FiniteSets, TLC

\* ------------------------------------------------------------------------
\* Python values
\* ------------------------------------------------------------------------
PyNone == [t |-> "null"]
PyNaN == [t |-> "nan"]
PyBool(b) == [t |-> "bool", b |-> b]
PyNum(n) == [t |-> "num", n |-> n]
PyStr(s) == [t |-> "str", s |-> s]
PyList(items) == [t |-> "list", items |-> items]
PyDict(kv) == [t |-> "dict", kv |-> kv]
KV(k, v) == [k |-> k, v |-> v]
EmptyDict == PyDict(<<>>)
EmptyList == PyList(<<>>)

IsNone(v) == v.t = "null"
IsStr(v) == v.t = "str"
IsList(v) == v.t = "list"
IsDict(v) == v.t = "dict"

\* bool(v): Python truthiness
Truthy(v) ==
    CASE v.t = "null" -> FALSE
      [] v.t = "nan" -> TRUE
      [] v.t = "bool" -> v.b
      [] v.t = "num" -> v.n # 0
      [] v.t = "str" -> Len(v.s) > 0
      [] v.t = "list" -> Len(v.items) > 0
      [] v.t = "dict" -> Len(v.kv) > 0

\* key in d, d[key] and d.get(key, default) of a dict
DictKeys(d) == {d.kv[i].k : i \in 1..Len(d.kv)}
DictHas(d, key) == key \in DictKeys(d)
DictAt(d, key) == d.kv[CHOOSE i \in 1..Len(d.kv) : d.kv[i].k = key].v
DictGet(d, key, default) == IF DictHas(d, key) THEN DictAt(d, key) ELSE default

\* ------------------------------------------------------------------------
\* str methods used by the code: strip, lower, find, rfind, slicing, in
\* ------------------------------------------------------------------------
\* F(v) with v evaluated once
Bind(v, F(_)) == CHOOSE out \in {F(x) : x \in {v}} : TRUE

CharAt(s, i) == IF i >= 1 /\ i <= Len(s) THEN SubSeq(s, i, i) ELSE ""
IsSpace(c) == c \in {" ", "\n", "\t", "\r"}

Upper == <<"A", "B", "C", "D", "E", "F", "G", "H", "I", "J", "K", "L", "M",
           "N", "O", "P", "Q", "R", "S", "T", "U", "V", "W", "X", "Y", "Z">>
Lower == <<"a", "b", "c", "d", "e", "f", "g", "h", "i", "j", "k", "l", "m",
           "n", "o", "p", "q", "r", "s", "t", "u", "v", "w", "x", "y", "z">>
LowerChar(c) ==
    IF \E i \in 1..Len(Upper) : Upper[i] = c
    THEN Lower[CHOOSE i \in 1..Len(Upper) : Upper[i] = c]
    ELSE c

RECURSIVE LowerFrom(_, _)
LowerFrom(s, i) ==
    IF i > Len(s) THEN "" ELSE LowerChar(CharAt(s, i)) \o LowerFrom(s, i + 1)
StrLower(s0) == Bind(s0, LAMBDA s : LowerFrom(s, 1))

\* the first offset from i on, and the last up to i, that holds no whitespace
RECURSIVE SkipWs(_, _)
SkipWs(s, i) == IF IsSpace(CharAt(s, i)) THEN SkipWs(s, i + 1) ELSE i
RECURSIVE SkipWsBack(_, _)
SkipWsBack(s, i) == IF IsSpace(CharAt(s, i)) THEN SkipWsBack(s, i - 1) ELSE i
LStrip(s0) == Bind(s0, LAMBDA s : SubSeq(s, SkipWs(s, 1), Len(s)))
RStrip(s0) == Bind(s0, LAMBDA s : SubSeq(s, 1, SkipWsBack(s, Len(s))))
StrStrip(s) == RStrip(LStrip(s))

\* s.find(c) and s.rfind(c) for a one-character c, as 0-based offsets, -1 if none
StrFind(s, c) ==
    IF \E i \in 1..Len(s) : CharAt(s, i) = c
    THEN (CHOOSE i \in 1..Len(s) :
            CharAt(s, i) = c /\ \A j \in 1..(i - 1) : CharAt(s, j) # c) - 1
    ELSE -1
StrRFind(s, c) ==
    IF \E i \in 1..Len(s) : CharAt(s, i) = c
    THEN (CHOOSE i \in 1..Len(s) :
            CharAt(s, i) = c /\ \A j \in (i + 1)..Len(s) : CharAt(s, j) # c) - 1
    ELSE -1
\* s[start:stop] for 0 <= start, stop <= len(s)
StrSlice(s, start, stop) == SubSeq(s, start + 1, stop)
\* sub in s
StrContains(sub, s) ==
    \E i \in 1..(Len(s) - Len(sub) + 1) : SubSeq(s, i, i + Len(sub) - 1) = sub


\* ------------------------------------------------------------------------
\* json.loads / json.dumps / str() of the Python standard library, on the
\* JSON subset the model uses: null, true, false, NaN, integers, strings
\* without escapes, lists, objects, ASCII whitespace.
\* ------------------------------------------------------------------------
Digits == <<"0", "1", "2", "3", "4", "5", "6", "7", "8", "9">>
IsDigit(c) == \E i \in 1..Len(Digits) : Digits[i] = c
DigitVal(c) == (CHOOSE i \in 1..Len(Digits) : Digits[i] = c) - 1

\* a failed parse: the msg and the 0-based pos of json.JSONDecodeError
ParseFail(msg, pos) == [ok |-> FALSE, msg |-> msg, pos |-> pos]
ParseOk(v, n) == [ok |-> TRUE, v |-> v, next |-> n]

RECURSIVE ScanDigits(_, _)
ScanDigits(s, i) == IF IsDigit(CharAt(s, i)) THEN ScanDigits(s, i + 1) ELSE i

RECURSIVE DigitsVal(_, _, _)
DigitsVal(s, b, e) ==
    IF e < b THEN 0 ELSE 10 * DigitsVal(s, b, e - 1) + DigitVal(CharAt(s, e))

StartsWith(s, i, lit) ==
    i + Len(lit) - 1 <= Len(s) /\ SubSeq(s, i, i + Len(lit) - 1) = lit

ParseNumber(s, i) ==
    LET neg == CharAt(s, i) = "-"
        b == IF neg THEN i + 1 ELSE i
    IN  Bind(IF CharAt(s, b) = "0" THEN b + 1 ELSE ScanDigits(s, b), LAMBDA e :
            IF e = b THEN ParseFail("Expecting value", i - 1)
            ELSE ParseOk(PyNum((IF neg THEN -1 ELSE 1) * DigitsVal(s, b, e - 1)), e))

\* the closing quote, or a control character that the strict scanner
\* refuses, or 0 at the end of the text
RECURSIVE ScanQuote(_, _)
ScanQuote(s, i) ==
    IF i > Len(s) THEN 0
    ELSE IF CharAt(s, i) = "\"" \/ CharAt(s, i) \in {"\n", "\t", "\r"} THEN i
    ELSE ScanQuote(s, i + 1)

\* scanstring, on a text that has a quote at i
ParseString(s, i) ==
    Bind(ScanQuote(s, i + 1), LAMBDA j :
        IF j = 0 THEN ParseFail("Unterminated string starting at", i - 1)
        ELSE IF CharAt(s, j) # "\"" THEN ParseFail("Invalid control character at", j - 1)
        ELSE ParseOk(PyStr(SubSeq(s, i + 1, j - 1)), j + 1))

\* d[key] = v on the pairs of a dict: a known key keeps its place
DictPut(kv, key, v) ==
    IF \E i \in 1..Len(kv) : kv[i].k = key
    THEN [i \in 1..Len(kv) |-> IF kv[i].k = key THEN KV(key, v) ELSE kv[i]]
    ELSE Append(kv, KV(key, v))

\* s and i are values at every call; acc is the list or dict built so far
RECURSIVE ParseValue(_, _)
RECURSIVE ParseItems(_, _, _)
RECURSIVE ParseMembers(_, _, _)
ItemsAfter(s, acc, j) ==
    IF CharAt(s, j) = ","
    THEN Bind(SkipWs(s, j + 1), LAMBDA n : ParseItems(s, n, acc))
    ELSE IF CharAt(s, j) = "]" THEN ParseOk(PyList(acc), j + 1)
    ELSE ParseFail("Expecting ',' delimiter", j - 1)
MembersAfter(s, acc, m) ==
    IF CharAt(s, m) = ","
    THEN Bind(SkipWs(s, m + 1), LAMBDA n : ParseMembers(s, n, acc))
    ELSE IF CharAt(s, m) = "}" THEN ParseOk(PyDict(acc), m + 1)
    ELSE ParseFail("Expecting ',' delimiter", m - 1)
ParseValue(s, i) ==
    LET c == CharAt(s, i)
    IN  CASE c = "\"" -> ParseString(s, i)
          [] c = "[" ->
                Bind(SkipWs(s, i + 1), LAMBDA j :
                    IF CharAt(s, j) = "]" THEN ParseOk(EmptyList, j + 1)
                    ELSE ParseItems(s, j, <<>>))
          [] c = "{" ->
                Bind(SkipWs(s, i + 1), LAMBDA j :
                    IF CharAt(s, j) = "}" THEN ParseOk(EmptyDict, j + 1)
                    ELSE ParseMembers(s, j, <<>>))
          [] StartsWith(s, i, "null") -> ParseOk(PyNone, i + 4)
          [] StartsWith(s, i, "true") -> ParseOk(PyBool(TRUE), i + 4)
          [] StartsWith(s, i, "false") -> ParseOk(PyBool(FALSE), i + 5)
          [] StartsWith(s, i, "NaN") -> ParseOk(PyNaN, i + 3)
          [] OTHER -> ParseNumber(s, i)
ParseItems(s, i, acc) ==
    Bind(ParseValue(s, i), LAMBDA r :
        IF ~r.ok THEN r
        ELSE Bind(Append(acc, r.v), LAMBDA acc2 :
                Bind(SkipWs(s, r.next), LAMBDA j : ItemsAfter(s, acc2, j))))
ParseMembers(s, i, acc) ==
    IF CharAt(s, i) # "\""
    THEN ParseFail("Expecting property name enclosed in double quotes", i - 1)
    ELSE
    Bind(ParseString(s, i), LAMBDA k :
        IF ~k.ok THEN k
        ELSE Bind(SkipWs(s, k.next), LAMBDA j :
                IF CharAt(s, j) # ":" THEN ParseFail("Expecting ':' delimiter", j - 1)
                ELSE Bind(ParseValue(s, SkipWs(s, j + 1)), LAMBDA r :
                        IF ~r.ok THEN r
                        ELSE Bind(DictPut(acc, k.v.s, r.v), LAMBDA acc2 :
                                Bind(SkipWs(s, r.next), LAMBDA m :
                                    MembersAfter(s, acc2, m))))))

RECURSIVE NatToStr(_)
NatToStr(n) ==
    IF n < 10 THEN Digits[n + 1] ELSE NatToStr(n \div 10) \o Digits[(n % 10) + 1]
IntToStr(n) == IF n < 0 THEN "-" \o NatToStr(-n) ELSE NatToStr(n)

\* str(json.JSONDecodeError(msg, doc, pos)): the message with the line, the
\* column and the offset of pos in doc
JSONDecodeErrorMsg(msg, doc, pos) ==
    LET newlines == {i \in 1..pos : CharAt(doc, i) = "\n"}
        last == IF newlines = {} THEN 0
                ELSE CHOOSE i \in newlines : \A j \in newlines : j <= i
    IN  msg \o ": line " \o NatToStr(Cardinality(newlines) + 1)
            \o " column " \o NatToStr(pos - (last - 1))
            \o " (char " \o NatToStr(pos) \o ")"

\* json.loads(s) of a str s: [ok |-> TRUE, v |-> value], or
\* [ok |-> FALSE, msg |-> str(exc)] where json.loads raises
\* json.JSONDecodeError exc
json_loads(s0) ==
    Bind(s0, LAMBDA s :
        Bind(ParseValue(s, SkipWs(s, 1)), LAMBDA r :
            IF ~r.ok THEN [ok |-> FALSE, msg |-> JSONDecodeErrorMsg(r.msg, s, r.pos)]
            ELSE Bind(SkipWs(s, r.next), LAMBDA e :
                    IF e = Len(s) + 1 THEN [ok |-> TRUE, v |-> r.v]
                    ELSE [ok |-> FALSE,
                          msg |-> JSONDecodeErrorMsg("Extra data", s, e - 1)])))


\* json.dumps(v) with the default separators
RECURSIVE json_dumps(_)
RECURSIVE DumpItems(_)
RECURSIVE DumpMembers(_)
json_dumps(v) ==
    CASE v.t = "null" -> "null"
      [] v.t = "nan" -> "NaN"
      [] v.t = "bool" -> IF v.b THEN "true" ELSE "false"
      [] v.t = "num" -> IntToStr(v.n)
      [] v.t = "str" -> "\"" \o v.s \o "\""
      [] v.t = "list" -> "[" \o DumpItems(v.items) \o "]"
      [] v.t = "dict" -> "{" \o DumpMembers(v.kv) \o "}"
DumpItems(items) ==
    IF Len(items) = 0 THEN ""
    ELSE IF Len(items) = 1 THEN json_dumps(items[1])
    ELSE json_dumps(items[1]) \o ", " \o DumpItems(Tail(items))
DumpMembers(kv) ==
    IF Len(kv) = 0 THEN ""
    ELSE LET m == "\"" \o kv[1].k \o "\": " \o json_dumps(kv[1].v)
         IN  IF Len(kv) = 1 THEN m ELSE m \o ", " \o DumpMembers(Tail(kv))

\* repr(v) and str(v)
RECURSIVE py_repr(_)
RECURSIVE ReprItems(_)
RECURSIVE ReprMembers(_)
py_repr(v) ==
    CASE v.t = "null" -> "None"
      [] v.t = "nan" -> "nan"
      [] v.t = "bool" -> IF v.b THEN "True" ELSE "False"
      [] v.t = "num" -> IntToStr(v.n)
      [] v.t = "str" -> "'" \o v.s \o "'"
      [] v.t = "list" -> "[" \o ReprItems(v.items) \o "]"
      [] v.t = "dict" -> "{" \o ReprMembers(v.kv) \o "}"
ReprItems(items) ==
    IF Len(items) = 0 THEN ""
    ELSE IF Len(items) = 1 THEN py_repr(items[1])
    ELSE py_repr(items[1]) \o ", " \o ReprItems(Tail(items))
ReprMembers(kv) ==
    IF Len(kv) = 0 THEN ""
    ELSE LET m == "'" \o kv[1].k \o "': " \o py_repr(kv[1].v)
         IN  IF Len(kv) = 1 THEN m ELSE m \o ", " \o ReprMembers(Tail(kv))
py_str(v) == IF v.t = "str" THEN v.s ELSE py_repr(v)


\* ------------------------------------------------------------------------
\* selection.py
\* ------------------------------------------------------------------------
\* A call either returns a value or raises: [raised |-> FALSE, v |-> value]
\* or [raised |-> TRUE, exc |-> exception type].
Returned(v) == [raised |-> FALSE, v |-> v]
Raised(e) == [raised |-> TRUE, exc |-> e]

_ALLOWED_DIAGNOSES == {"Primary Lung Cancer", "No Cancer"}
_ALLOWED_REASONS == {"Indeterminate Pulmonary Nodule"}

\* row.get(column) of a pandas row: None when the row has no such column
RowGet(row, column) == IF column \in DOMAIN row THEN row[column] ELSE PyNone

_parse_json_cell(value) ==
    IF IsNone(value) THEN EmptyDict
    ELSE IF IsDict(value) THEN value
    ELSE LET r == json_loads(py_str(value))
         IN  IF r.ok THEN r.v ELSE EmptyDict

\* a variant of _list_empty that takes a value it cannot parse as empty
ListEmptyLenient(value) ==
    IF IsNone(value) THEN TRUE
    ELSE IF IsList(value) THEN Len(value.items) = 0
    ELSE IF IsStr(value)
    THEN LET parsed == json_loads(value.s)
         IN  IF parsed.ok /\ IsList(parsed.v) THEN Len(parsed.v.items) = 0 ELSE TRUE
    ELSE TRUE

\* json.loads(value) raises TypeError when value is no str; _list_empty
\* catches it like a decode error
_list_empty(value) ==
    IF IsNone(value) THEN TRUE
    ELSE IF IsList(value) THEN Len(value.items) = 0
    ELSE IF IsStr(value)
    THEN LET parsed == json_loads(value.s)
         IN  IF parsed.ok /\ IsList(parsed.v) THEN Len(parsed.v.items) = 0 ELSE FALSE
    ELSE FALSE

\* What `for r in regions` iterates over: the items of a list, the characters
\* of a str, the keys of a dict; other values are not iterable (TypeError).
IsIterable(v) == v.t \in {"list", "str", "dict"}
IterItems(v) ==
    CASE v.t = "list" -> v.items
      [] v.t = "str" -> [i \in 1..Len(v.s) |-> PyStr(CharAt(v.s, i))]
      [] v.t = "dict" -> [i \in 1..Len(v.kv) |-> PyStr(v.kv[i].k)]

\* the loop of _contains_chest over the items: r.lower() raises AttributeError
\* on an item that is no str, unless an earlier item already returned True
RECURSIVE ContainsChestLoop(_, _)
ContainsChestLoop(items, i) ==
    IF i > Len(items) THEN Returned(FALSE)
    ELSE IF ~IsStr(items[i]) THEN Raised("AttributeError")
    ELSE IF StrContains("chest", StrLower(items[i].s)) THEN Returned(TRUE)
    ELSE ContainsChestLoop(items, i + 1)

_contains_chest(regions) ==
    IF ~IsIterable(regions) THEN Raised("TypeError")
    ELSE Bind(IterItems(regions), LAMBDA items : ContainsChestLoop(items, 1))

\* x in {a set of str}: a list or a dict is unhashable (TypeError)
IsHashable(v) == v.t \notin {"list", "dict"}
InStrSet(v, S) == IsStr(v) /\ v.s \in S

Verdict(include, reasons) == Returned([include |-> include, reasons |-> reasons])

\* a variant of AddReason that records the first failure only
AddFirstReason(reasons, failed, name) ==
    IF failed /\ Len(reasons) = 0 THEN Append(reasons, name) ELSE reasons

\* `if <failed>: reasons.append(name)`
AddReason(reasons, failed, name) == IF failed THEN Append(reasons, name) ELSE reasons

\* lines 54-83 of evaluate_row: the seven rules, in the order of the code.
\* ct.get / pet.get raise AttributeError on a parsed cell that is no dict.
RulesOn(ct, pet) ==
    IF ~IsDict(ct) THEN Raised("AttributeError")
    ELSE
    LET ct_regions == DictGet(ct, "CT_Regions", EmptyList)
        ct_contrast == DictGet(ct, "CT_Contrast_Agent", PyStr(""))
        lung_nodules == DictGet(ct, "Lung_Nodules", EmptyList)
        chest == _contains_chest(ct_regions)
    IN
    IF chest.raised THEN chest
    ELSE
    LET r1 == AddReason(<<>>, ~chest.v, "ct_not_chest")
        r2 == AddReason(r1, StrLower(StrStrip(py_str(ct_contrast))) # "none",
                        "ct_contrast_present")
        r3 == AddReason(r2, ~Truthy(lung_nodules) \/ lung_nodules = EmptyList,
                        "no_lung_nodules")
    IN
    IF ~IsDict(pet) THEN Raised("AttributeError")
    ELSE
    LET clinical_reason == DictGet(pet, "Clinical_Reason", PyStr(""))
        primary_dx == DictGet(pet, "Primary_Diagnosis", PyStr(""))
        lymph_nodes == DictGet(pet, "Lymph_Nodes_Hypermetabolic_Regions", EmptyList)
        other_hyper == DictGet(pet, "Other_Hypermetabolic_Regions", EmptyList)
    IN
    IF ~IsHashable(clinical_reason) THEN Raised("TypeError")
    ELSE
    LET r4 == AddReason(r3, ~InStrSet(clinical_reason, _ALLOWED_REASONS),
                        "pet_reason_not_indeterminate_nodule")
    IN
    IF ~IsHashable(primary_dx) THEN Raised("TypeError")
    ELSE
    LET r5 == AddReason(r4, ~InStrSet(primary_dx, _ALLOWED_DIAGNOSES),
                        "pet_primary_dx_not_allowed")
        r6 == AddReason(r5, ~_list_empty(lymph_nodes), "pet_lymph_hypermetabolic")
        r7 == AddReason(r6, ~_list_empty(other_hyper), "pet_other_hypermetabolic")
    IN  Verdict(Len(r7) = 0, r7)
EvaluateRules(row) ==
    Bind(_parse_json_cell(RowGet(row, "ct_json")), LAMBDA ct :
        Bind(_parse_json_cell(RowGet(row, "pet_json")), LAMBDA pet : RulesOn(ct, pet)))

\* a variant of evaluate_row without the early return of lines 50-52
EvaluateRowNoEarlyReturn(r) == EvaluateRules(r)

evaluate_row(r) ==
    IF Truthy(RowGet(r, "extraction_error"))
    THEN Verdict(FALSE, Append(<<>>, "extraction_error"))
    ELSE EvaluateRules(r)

\* ------------------------------------------------------------------------
\* llm.py
\* In llm.py and extraction.py an exception is named by its message,
\* str(exc), the only thing the code reads of it.
\* ------------------------------------------------------------------------
\* a variant of _parse_json without the second stage
ParseStrictOnly(text0) ==
    LET strict == json_loads(StrStrip(text0))
    IN  IF strict.ok THEN Returned(strict.v) ELSE Raised(strict.msg)

\* the second json.loads raises its own error, on the slice; the bare
\* raise gives the error of the first
_parse_json(text0) ==
    LET text == StrStrip(text0)
        strict == json_loads(text)
    IN  IF strict.ok THEN Returned(strict.v)
        ELSE LET start == StrFind(text, "{")
                 end == StrRFind(text, "}")
             IN  IF start # -1 /\ end # -1 /\ end > start
                 THEN LET inner == json_loads(StrSlice(text, start, end + 1))
                      IN  IF inner.ok THEN Returned(inner.v)
                          ELSE Raised(inner.msg)
                 ELSE Raised(strict.msg)

\* What one request gives: client.responses.create(...) raises (or the
\* response has no output text), or the response carries a text.
RaiseResponse(msg) == [kind |-> "raise", msg |-> msg]
TextResponse(text) == [kind |-> "text", text |-> text]

\* the try block of one attempt: request, then _parse_json of the text
AttemptResult(resp) ==
    IF resp.kind = "raise" THEN Raised(resp.msg) ELSE _parse_json(resp.text)

\* a backoff that grows by two seconds per attempt instead of doubling
TwoPerAttempt(n) == 2 * n

\* 2 ** attempt
RECURSIVE Pow2(_)
Pow2(n) == IF n <= 0 THEN 1 ELSE 2 * Pow2(n - 1)

\* _extract_with_retry as a loop over `for attempt in range(1, retries + 1)`.
\* A call is running (about to issue request number `attempt`), returned or
\* raised; `requests` counts the requests issued, `sleeps` lists the
\* time.sleep arguments so far.
RetryBegin(retries) ==
    IF retries >= 1
    THEN [status |-> "running", attempt |-> 1, requests |-> 0, sleeps |-> <<>>]
    ELSE [status |-> "returned", v |-> EmptyDict, requests |-> 0, sleeps |-> <<>>]

\* a variant of RetryOnResponse that gives up one attempt later
RetryOneMore(call, resp, retries) ==
    LET r == AttemptResult(resp)
        n == call.requests + 1
    IN  IF ~r.raised
        THEN [status |-> "returned", v |-> r.v, requests |-> n, sleeps |-> call.sleeps]
        ELSE IF call.attempt = retries + 1
        THEN [status |-> "raised", exc |-> r.exc, requests |-> n, sleeps |-> call.sleeps]
        ELSE [status |-> "running", attempt |-> call.attempt + 1, requests |-> n,
              sleeps |-> Append(call.sleeps, Pow2(call.attempt))]

RetryOnResponse(call, resp, retries) ==
    LET r == AttemptResult(resp)
        n == call.requests + 1
    IN  IF ~r.raised
        THEN [status |-> "returned", v |-> r.v, requests |-> n, sleeps |-> call.sleeps]
        ELSE IF call.attempt = retries
        THEN [status |-> "raised", exc |-> r.exc, requests |-> n, sleeps |-> call.sleeps]
        ELSE [status |-> "running", attempt |-> call.attempt + 1, requests |-> n,
              sleeps |-> Append(call.sleeps, Pow2(call.attempt))]


\* ------------------------------------------------------------------------
\* extraction.py: helpers
\* ------------------------------------------------------------------------
_EXPECTED_CT_KEYS == <<"CT_Regions", "CT_Contrast_Agent", "Lung_Nodules">>
_EXPECTED_PET_KEYS ==
    <<"Lung_Hypermetabolic_Regions", "Lymph_Nodes_Hypermetabolic_Regions",
      "Other_Hypermetabolic_Regions", "PET_Tracer", "PET_Scan_Region",
      "PET_Blood_Glucose_Level", "PET_Waiting_Time", "Clinical_Reason",
      "Primary_Diagnosis">>

SeqRange(q) == {q[i] : i \in 1..Len(q)}

\* the order of str under <, by code point (printable ASCII, no backquote)
AsciiOrder ==
    " !\"#$%&'()*+,-./0123456789:;<=>?@ABCDEFGHIJKLMNOPQRSTUVWXYZ[\\]^_abcdefghijklmnopqrstuvwxyz{|}~"
CharCode(c) == CHOOSE i \in 1..Len(AsciiOrder) : CharAt(AsciiOrder, i) = c
RECURSIVE StrLessFrom(_, _, _)
StrLessFrom(a, b, i) ==
    IF i > Len(b) THEN FALSE
    ELSE IF i > Len(a) THEN TRUE
    ELSE IF CharAt(a, i) = CharAt(b, i) THEN StrLessFrom(a, b, i + 1)
    ELSE CharCode(CharAt(a, i)) < CharCode(CharAt(b, i))
StrLess(a, b) == StrLessFrom(a, b, 1)

\* sorted(S) of a set of str
RECURSIVE SortedStrs(_)
SortedStrs(S) ==
    IF S = {} THEN <<>>
    ELSE Bind(CHOOSE a \in S : \A b \in S \ {a} : StrLess(a, b),
              LAMBDA m : <<m>> \o SortedStrs(S \ {m}))

_normalize_json_value(value) ==
    IF IsNone(value) THEN PyStr("")
    ELSE IF IsDict(value) \/ IsList(value) THEN PyStr(json_dumps(value))
    ELSE value

\* type(v).__name__
TypeName(v) ==
    CASE v.t = "null" -> "NoneType"
      [] v.t = "nan" -> "float"
      [] v.t = "bool" -> "bool"
      [] v.t = "num" -> "int"
      [] v.t = "str" -> "str"
      [] v.t = "list" -> "list"
      [] OTHER -> "dict"
\* item.keys() raises AttributeError on a value that is no dict: str(exc)
KeysErrorMsg(item) == "'" \o TypeName(item) \o "' object has no attribute 'keys'"
_ordered_keys(values, expected) ==
    IF \E i \in 1..Len(values) : ~IsDict(values[i])
    THEN Raised(KeysErrorMsg(values[CHOOSE i \in 1..Len(values) :
                                /\ ~IsDict(values[i])
                                /\ \A j \in 1..(i - 1) : IsDict(values[j])]))
    ELSE Bind(UNION {DictKeys(values[i]) : i \in 1..Len(values)}, LAMBDA discovered :
         Bind(discovered \ SeqRange(expected), LAMBDA extras :
            Returned(SelectSeq(expected, LAMBDA key : key \in discovered)
                     \o SortedStrs(extras))))

\* A pandas DataFrame: index labels, column names, one row (column -> value)
\* per position.
DataFrame(index, columns, rows) == [index |-> index, columns |-> columns, rows |-> rows]
NRows(d) == Len(d.rows)
\* df.head(n)
DfHead(d, n) ==
    LET k == IF n < NRows(d) THEN n ELSE NRows(d)
    IN  DataFrame(SubSeq(d.index, 1, k), d.columns, SubSeq(d.rows, 1, k))
\* df[name] = values: by position; a new column goes last, a known one is
\* replaced in place
DfSetColumn(d, name, values) ==
    DataFrame(d.index,
              IF name \in SeqRange(d.columns) THEN d.columns ELSE Append(d.columns, name),
              [i \in 1..NRows(d) |-> (name :> values[i]) @@ d.rows[i]])

\* sorted(results, key=lambda x: x[0]): stable, by the index label
RECURSIVE SortedByIdx(_)
InsertByIdx(sorted, e) ==
    LET k == Cardinality({i \in 1..Len(sorted) : sorted[i].idx <= e.idx})
    IN  SubSeq(sorted, 1, k) \o <<e>> \o SubSeq(sorted, k + 1, Len(sorted))
SortedByIdx(results) ==
    IF Len(results) = 0 THEN <<>>
    ELSE InsertByIdx(SortedByIdx(SubSeq(results, 1, Len(results) - 1)),
                     results[Len(results)])


\* ------------------------------------------------------------------------
\* extraction.py: _extract_pair and run_extraction
\* ------------------------------------------------------------------------
\* _extract_pair runs the CT call, then the PET call. A task of the pool is
\*   [st |-> "new"]     not submitted yet
\*   [st |-> "queued"]  submitted, waiting for a worker thread
\*   [st |-> "ct"]      in the CT call        (call: the retry loop's state)
\*   [st |-> "pet"]     in the PET call       (ct: the CT call's result)
\*   [st |-> "done"]    its future is resolved (outcome: the pair or the exception)
\*   [st |-> "yielded"] as_completed has handed the future to the main thread
PairDone(outcome) == [st |-> "done", outcome |-> outcome]
PairAfterPet(ct, call) ==
    IF call.status = "running" THEN [st |-> "pet", ct |-> ct, call |-> call]
    ELSE IF call.status = "returned"
    THEN PairDone(Returned([ct |-> ct, pet |-> call.v]))
    ELSE PairDone(Raised(call.exc))
\* a variant of PairAfterCt that goes on to the PET extraction after a CT
\* extraction that raised
PairAfterCtLenient(call, retries) ==
    IF call.status = "running" THEN [st |-> "ct", call |-> call]
    ELSE IF call.status = "returned"
    THEN PairAfterPet(call.v, RetryBegin(retries))
    ELSE PairAfterPet(EmptyDict, RetryBegin(retries))
PairAfterCt(call, retries) ==
    IF call.status = "running" THEN [st |-> "ct", call |-> call]
    ELSE IF call.status = "returned"
    THEN PairAfterPet(call.v, RetryBegin(retries))
    ELSE PairDone(Raised(call.exc))
_extract_pair(retries) == PairAfterCt(RetryBegin(retries), retries)
PairOnResponse(t, resp, retries) ==
    IF t.st = "ct" THEN PairAfterCt(RetryOnResponse(t.call, resp, retries), retries)
    ELSE PairAfterPet(t.ct, RetryOnResponse(t.call, resp, retries))

\* what the as_completed loop appends for a resolved future (lines 100-109)
ResultOf(idx, outcome) ==
    IF outcome.raised
    THEN [idx |-> idx, ct_json |-> EmptyDict, pet_json |-> EmptyDict, error |-> outcome.exc]
    ELSE [idx |-> idx, ct_json |-> outcome.v.ct, pet_json |-> outcome.v.pet, error |-> ""]

\* for key in keys: out_df[prefix + key] = [_normalize_json_value(item.get(key)) ...]
RECURSIVE FlattenColumns(_, _, _, _)
FlattenColumns(d, prefix, keys, jsons) ==
    IF Len(keys) = 0 THEN d
    ELSE Bind(DfSetColumn(d, prefix \o Head(keys),
                [i \in 1..Len(jsons) |->
                    _normalize_json_value(DictGet(jsons[i], Head(keys), PyNone))]),
              LAMBDA d1 : FlattenColumns(d1, prefix, Tail(keys), jsons))

\* lines 111-133: sort the results, attach them by position, flatten
AttachResults(d, results) ==
    Bind(SortedByIdx(results), LAMBDA results_sorted :
      LET n == Len(results_sorted)
          ct_jsons == [i \in 1..n |-> results_sorted[i].ct_json]
          pet_jsons == [i \in 1..n |-> results_sorted[i].pet_json]
          errors == [i \in 1..n |-> results_sorted[i].error]
          d1 == DfSetColumn(d, "ct_json", [i \in 1..n |-> PyStr(json_dumps(ct_jsons[i]))])
          d2 == DfSetColumn(d1, "pet_json", [i \in 1..n |-> PyStr(json_dumps(pet_jsons[i]))])
          d3 == DfSetColumn(d2, "extraction_error", [i \in 1..n |-> PyStr(errors[i])])
      IN  Bind(_ordered_keys(ct_jsons, _EXPECTED_CT_KEYS), LAMBDA ct_keys :
          Bind(_ordered_keys(pet_jsons, _EXPECTED_PET_KEYS), LAMBDA pet_keys :
            IF ct_keys.raised THEN ct_keys
            ELSE IF pet_keys.raised THEN pet_keys
            ELSE Bind(d3, LAMBDA attached :
                 Bind(FlattenColumns(attached, "ct_", ct_keys.v, ct_jsons), LAMBDA flat_ct :
                    Returned(FlattenColumns(flat_ct, "pet_", pet_keys.v, pet_jsons)))))))

\* lines 135-142: the write_text calls, in order, as [path, content]
RowGetDefault(r, column, default) == IF column \in DOMAIN r THEN r[column] ELSE default
RECURSIVE ArtifactWrites(_)
ArtifactWrites(rows) ==
    IF Len(rows) = 0 THEN <<>>
    ELSE LET r == Head(rows)
             ct_uid == RowGetDefault(r, "ct_study_uid", PyStr("unknown"))
             pt_uid == RowGetDefault(r, "pt_study_uid", PyStr("unknown"))
         IN  << [path |-> "ct/" \o py_str(ct_uid) \o ".json", content |-> r["ct_json"]],
                [path |-> "pet/" \o py_str(pt_uid) \o ".json", content |-> r["pet_json"]] >>
             \o ArtifactWrites(Tail(rows))

\* Path.write_text(data) raises TypeError unless data is a str; the writes
\* before the failing one have happened
WritesDone(writes) ==
    LET bad == {i \in 1..Len(writes) : ~IsStr(writes[i].content)}
    IN  IF bad = {} THEN writes
        ELSE SubSeq(writes, 1, (CHOOSE i \in bad : \A j \in bad : i <= j) - 1)
RECURSIVE WriteAll(_, _)
WriteAll(files, writes) ==
    IF Len(writes) = 0 THEN files
    ELSE WriteAll((Head(writes).path :> Head(writes).content.s) @@ files, Tail(writes))


\* ------------------------------------------------------------------------
\* Inputs
\* ------------------------------------------------------------------------
NumRows == 2
MaxRetries == 4

\* cfg.llm: a mapping that may lack any of its keys
LlmGet(llm, key, default) == IF key \in DOMAIN llm THEN llm[key] ELSE default
DefaultRetries == 3
DefaultConcurrency == 6
CfgRetries(llm) == LlmGet(llm, "retries", DefaultRetries)
CfgConcurrency(llm) == LlmGet(llm, "concurrency", DefaultConcurrency)

RetryChoices == (-1)..MaxRetries
LlmConfigs ==
    {[api_key |-> "sk-test", retries |-> r, concurrency |-> c] :
        r \in {1, 2}, c \in {1, 2}}
    \cup {[api_key |-> "sk-test"],
          [api_key |-> "sk-test", retries |-> 0, concurrency |-> 2],
          [api_key |-> "sk-test", retries |-> -1, concurrency |-> 1],
          [retries |-> 1, concurrency |-> 2],
          [api_key |-> "", retries |-> 1, concurrency |-> 2]}
MaxRowsArgs == {0, 1}

\* the candidate table: index labels in several shapes, study UIDs distinct
\* or shared (the query keeps one row per PET study, so that one CT study
\* can be the match of several PET studies of a patient)
CandidateColumns == <<"patient_id", "pt_study_uid", "ct_study_uid", "pt_report", "ct_report">>
CandidateRow(i, shared) ==
    [patient_id |-> PyStr("P1"),
     pt_study_uid |-> PyStr("PT" \o NatToStr(i)),
     ct_study_uid |-> PyStr(IF shared THEN "CT1" ELSE "CT" \o NatToStr(i)),
     pt_report |-> PyStr("PET report " \o NatToStr(i)),
     ct_report |-> PyStr("CT report " \o NatToStr(i))]
IndexOf(shape, n) ==
    [i \in 1..n |->
        CASE shape = "range" -> i - 1
          [] shape = "reversed" -> n - i
          [] shape = "constant" -> 0
          [] shape = "gaps" -> 2 * i + 1]
CandidateTable(shape, shared) ==
    DataFrame(IndexOf(shape, NumRows), CandidateColumns,
              [i \in 1..NumRows |-> CandidateRow(i, shared)])
InputTables ==
    {CandidateTable(shape, FALSE) : shape \in {"range", "reversed", "constant", "gaps"}}
    \cup {CandidateTable("range", TRUE)}

\* what the LLM may answer to one request
ChestJson == "{\"CT_Regions\": [\"Chest\"]}"
Responses ==
    {RaiseResponse("Connection error."), RaiseResponse(""),
     TextResponse(ChestJson), TextResponse("{}"), TextResponse("[]"),
     TextResponse("Result: " \o ChestJson \o " \n"),
     TextResponse("{\"CT_Regions\": [\"Che"),
     TextResponse("Sure: {CT} "), TextResponse("}{")}
\* an answer with expected keys out of order, keys of the other schema,
\* unknown keys and a null; an answer whose keys, once prefixed, are names
\* of columns the table already has
RichJson ==
    "{\"zeta\": 1, \"Lung_Nodules\": [], \"CT_Regions\": [\"Chest\"], "
        \o "\"alpha\": null, \"Primary_Diagnosis\": \"No Cancer\"}"
ClashJson == "{\"report\": \"seen\", \"json\": \"j\"}"
\* the answers the pool's tasks get in a run
RunResponses ==
    {RaiseResponse("Connection error."), RaiseResponse(""),
     TextResponse("Result: " \o RichJson \o " \n"), TextResponse(ClashJson),
     TextResponse("[]")}

\* the rows given to evaluate_row: a key of the extracted mapping may be left
\* out (Absent), and a cell is the mapping itself or its JSON text
Absent == [t |-> "absent"]
MkDict(pairs) == PyDict(SelectSeq(pairs, LAMBDA kv : kv.v.t # "absent"))
CtJson(regions, contrast, nodules) ==
    MkDict(<<KV("CT_Regions", regions), KV("CT_Contrast_Agent", contrast),
             KV("Lung_Nodules", nodules)>>)
PetJson(reason, dx, lymph, other) ==
    MkDict(<<KV("Clinical_Reason", reason), KV("Primary_Diagnosis", dx),
             KV("Lymph_Nodes_Hypermetabolic_Regions", lymph),
             KV("Other_Hypermetabolic_Regions", other)>>)
Finding(size) == PyDict(<<KV("size_mm", PyStr(size))>>)

\* per field: a value that passes its rule, one that fails it, and others
GoodRegions == PyList(<<PyStr("Chest"), PyStr("Abdomen")>>)
GoodContrast == PyStr("None")
GoodNodules == PyList(<<Finding("8")>>)
GoodReason == PyStr("Indeterminate Pulmonary Nodule")
GoodDx == PyStr("No Cancer")
BadRegions == PyList(<<PyStr("Abdomen")>>)
BadContrast == PyStr("Iodine")
BadNodules == EmptyList
BadReason == PyStr("Staging of New Primary Cancer")
BadDx == PyStr("Lymphoma")
BadFindings == PyList(<<Finding("5")>>)

OtherRegions ==
    {Absent, PyNone, EmptyList, PyStr("chest"), PyList(<<PyStr("CHEST wall")>>),
     PyList(<<PyNum(5), PyStr("Chest")>>), PyList(<<PyStr("Chest"), PyNum(5)>>),
     PyNum(5), PyDict(<<KV("chest", PyNum(1))>>)}
OtherContrast ==
    {Absent, PyNone, PyStr(" none "), PyStr("NONE"), PyStr(""), PyNum(0), EmptyList}
OtherNodules == {Absent, PyNone, PyStr("none"), EmptyDict, PyNum(0), PyStr("")}
OtherReason ==
    {Absent, PyNone, PyList(<<GoodReason>>), PyStr("indeterminate pulmonary nodule"),
     PyStr(""), PyNum(0)}
OtherDx == {Absent, PyNone, PyStr("Primary Lung Cancer"), PyStr("no cancer"),
            PyStr(""), EmptyDict}
OtherFindings ==
    {Absent, PyNone, PyStr(""), PyStr("[]"), PyStr(" [] "), PyStr("{bad"),
     PyStr("{}"), PyStr("null"), PyStr("[1]"), EmptyDict, PyNum(0), PyBool(TRUE)}

CtCore ==
    {CtJson(r, c, n) : r \in {GoodRegions, BadRegions}, c \in {GoodContrast, BadContrast},
                       n \in {GoodNodules, BadNodules}}
PetCore ==
    {PetJson(r, d, l, o) : r \in {GoodReason, BadReason}, d \in {GoodDx, BadDx},
                           l \in {EmptyList, BadFindings}, o \in {EmptyList, BadFindings}}
GoodCt == CtJson(GoodRegions, GoodContrast, GoodNodules)
GoodPet == PetJson(GoodReason, GoodDx, EmptyList, EmptyList)
BadCt == CtJson(BadRegions, BadContrast, BadNodules)
BadPet == PetJson(BadReason, BadDx, BadFindings, BadFindings)
CtOther ==
    {CtJson(r, GoodContrast, GoodNodules) : r \in OtherRegions}
    \cup {CtJson(GoodRegions, c, GoodNodules) : c \in OtherContrast}
    \cup {CtJson(GoodRegions, GoodContrast, n) : n \in OtherNodules}
    \cup {CtJson(r, BadContrast, BadNodules) : r \in OtherRegions}
    \cup {CtJson(BadRegions, c, BadNodules) : c \in OtherContrast}
    \cup {CtJson(BadRegions, BadContrast, n) : n \in OtherNodules}
PetOther ==
    {PetJson(r, GoodDx, EmptyList, EmptyList) : r \in OtherReason}
    \cup {PetJson(GoodReason, d, EmptyList, EmptyList) : d \in OtherDx}
    \cup {PetJson(GoodReason, GoodDx, l, EmptyList) : l \in OtherFindings}
    \cup {PetJson(GoodReason, GoodDx, EmptyList, o) : o \in OtherFindings}
    \cup {PetJson(r, BadDx, BadFindings, BadFindings) : r \in OtherReason}
    \cup {PetJson(BadReason, d, BadFindings, BadFindings) : d \in OtherDx}
    \cup {PetJson(BadReason, BadDx, l, BadFindings) : l \in OtherFindings}
    \cup {PetJson(BadReason, BadDx, BadFindings, o) : o \in OtherFindings}
\* cells that hold no mapping: missing, NaN, malformed text, JSON of another type
OddCells ==
    {PyNone, PyNaN, PyStr(""), PyStr("{bad"), PyStr("[]"), PyStr("null"), PyStr("5"),
     PyStr("\"x\""), EmptyList}
ErrorCells == {PyStr("Connection error."), PyStr(" "), PyNaN}

AsText(d) == PyStr(json_dumps(d))
SelRow(err, ct, pet) == [extraction_error |-> err, ct_json |-> ct, pet_json |-> pet]
SelRows ==
    {SelRow(PyStr(""), AsText(ct), AsText(pet)) : ct \in CtCore, pet \in PetCore}
    \cup {SelRow(PyStr(""), AsText(ct), AsText(pet)) :
            ct \in CtOther, pet \in {GoodPet, BadPet}}
    \cup {SelRow(PyStr(""), AsText(ct), AsText(pet)) :
            ct \in {GoodCt, BadCt}, pet \in PetOther}
    \cup {SelRow(PyStr(""), ct, pet) : ct \in CtOther, pet \in {GoodPet}}
    \cup {SelRow(PyStr(""), ct, pet) : ct \in {GoodCt}, pet \in PetOther}
    \cup {SelRow(PyStr(""), ct, AsText(pet)) : ct \in OddCells, pet \in {GoodPet, BadPet}}
    \cup {SelRow(PyStr(""), AsText(ct), pet) : ct \in {GoodCt, BadCt}, pet \in OddCells}
    \cup {SelRow(PyNone, AsText(ct), AsText(pet)) : ct \in CtCore, pet \in {GoodPet, BadPet}}
    \cup {[ct_json |-> AsText(ct), pet_json |-> AsText(GoodPet)] : ct \in CtCore}
    \cup {[extraction_error |-> PyStr("")], [extraction_error |-> PyStr(""), ct_json |-> AsText(GoodCt)]}
    \cup {SelRow(e, ct, pet) :
            e \in ErrorCells,
            ct \in {AsText(GoodCt), AsText(BadCt), PyStr("{}"), PyStr("[]"), PyNone,
                    AsText(CtJson(PyNum(5), GoodContrast, GoodNodules))},
            pet \in {AsText(GoodPet), AsText(BadPet), PyStr("{}"), PyStr("null")}}

\* ------------------------------------------------------------------------
\* State
\* ------------------------------------------------------------------------
VARIABLES
    llm,        \* cfg.llm of the run
    max_rows,   \* the max_rows argument (0: None)
    df,         \* the caller's candidate table
    pc,         \* main thread of run_extraction: start, submit, collect, returned, raised
    task,       \* the pool's tasks, one per row position of the local df
    results,    \* the results list of run_extraction
    out,        \* what run_extraction returned or raised
    fs,         \* output_dir: directories made, files written, the write_text calls
    retry,      \* one call of _extract_with_retry on its own, with its responses
    row,        \* the row given to evaluate_row
    verdict,    \* what evaluate_row returned or raised
    ev,         \* calls of evaluate_row statement by statement, and their objects
    bq,         \* the query command: cfg.bigquery, the limit, how far it got
    ap,         \* one call of apply_selection: the table, the loop, the outputs
    rd,         \* the run directories: the invocations and the files under outputs
    lg,         \* the legacy extraction script: its threads, lock, set and CSV
    md,         \* match_and_rename_by_z: the folders and the log
    mg          \* the PET batch merge: input, output directory, progress

runVars == <<llm, max_rows, df, pc, task, results, out, fs>>
selVars == <<row, verdict, ev>>
vars == <<llm, max_rows, df, pc, task, results, out, fs, retry, row, verdict, ev, bq, ap, rd, lg, md, mg>>

NoRun ==
    /\ llm = <<>> /\ max_rows = 0 /\ df = DataFrame(<<>>, <<>>, <<>>)
    /\ pc = "none" /\ task = <<>> /\ results = <<>>
    /\ out = [status |-> "none"] /\ fs = [dirs |-> {}, files |-> <<>>, writes |-> <<>>]
NoRetry == retry = [status |-> "none"]
NoSel == row = <<>> /\ verdict = [status |-> "none"] /\ ev = [status |-> "none"]
NoQuery == bq = [status |-> "none"]
laterVars == <<ap, rd, lg, md, mg>>
NoApply == ap = [status |-> "none"]
NoRunDirs == rd = [status |-> "none"]
NoLegacy == lg = [status |-> "none"]
NoMatch == md = [status |-> "none"]
NoMerge == mg = [status |-> "none"]
NoLater == NoApply /\ NoRunDirs /\ NoLegacy /\ NoMatch /\ NoMerge

\* ------------------------------------------------------------------------
\* run_extraction
\* ------------------------------------------------------------------------
\* the local df after `if max_rows: df = df.head(max_rows)`
WorkDf == IF max_rows # 0 THEN DfHead(df, max_rows) ELSE df
Running == {p \in 1..Len(task) : task[p].st \in {"ct", "pet"}}

RunInit ==
    /\ llm \in LlmConfigs
    /\ max_rows \in MaxRowsArgs
    /\ df \in InputTables
    /\ pc = "start"
    /\ task = <<>>
    /\ results = <<>>
    /\ out = [status |-> "none"]
    /\ fs = [dirs |-> {}, files |-> <<>>, writes |-> <<>>]

\* lines 65-85: the api_key check, the output directories, head(max_rows)
\* (the two prompt files read at lines 69-70 are taken to exist and to be
\* readable: _load_prompt returns their text and changes nothing)
Begin ==
    /\ pc = "start"
    /\ IF LlmGet(llm, "api_key", "") = ""
       THEN /\ pc' = "raised"
            /\ out' = [status |-> "raised", exc |-> "OPENAI_API_KEY is not set"]
            /\ UNCHANGED <<task, fs>>
       ELSE /\ fs' = [fs EXCEPT !.dirs = {".", "ct", "pet"}]
            /\ task' = [p \in 1..NRows(WorkDf) |-> [st |-> "new"]]
            /\ pc' = IF NRows(WorkDf) = 0 THEN "collect" ELSE "submit"
            /\ out' = out
    /\ UNCHANGED <<llm, max_rows, df, results, retry, row, verdict, ev, bq, laterVars>>

\* lines 89-98: executor.submit for the next row of df.iterrows()
Submit ==
    /\ pc = "submit"
    /\ LET p == CHOOSE q \in 1..Len(task) :
                    task[q].st = "new" /\ \A k \in 1..(q - 1) : task[k].st # "new"
       IN  /\ task' = [task EXCEPT ![p] = [st |-> "queued"]]
           /\ pc' = IF p = Len(task) THEN "collect" ELSE "submit"
    /\ UNCHANGED <<llm, max_rows, df, results, out, fs, retry, row, verdict, ev, bq, laterVars>>

\* a variant of StartTask whose pool starts a queued task though no worker
\* thread is free
StartTaskUnbounded(p) ==
    /\ p \in 1..Len(task)
    /\ task[p].st = "queued"
    /\ \A k \in 1..(p - 1) : task[k].st # "queued"
    /\ task' = [task EXCEPT ![p] = _extract_pair(CfgRetries(llm))]
    /\ UNCHANGED <<llm, max_rows, df, pc, results, out, fs, retry, row, verdict, ev, bq, laterVars>>

\* a free worker thread takes the oldest queued task and enters _extract_pair
StartTask(p) ==
    /\ p \in 1..Len(task)
    /\ task[p].st = "queued"
    /\ \A k \in 1..(p - 1) : task[k].st # "queued"
    /\ Cardinality(Running) < CfgConcurrency(llm)
    /\ task' = [task EXCEPT ![p] = _extract_pair(CfgRetries(llm))]
    /\ UNCHANGED <<llm, max_rows, df, pc, results, out, fs, retry, row, verdict, ev, bq, laterVars>>

\* one attempt of the retry loop of task p: the request, its answer, and
\* what the loop does with it (return, raise, or sleep and go on)
Attempt(p) ==
    /\ p \in 1..Len(task)
    /\ task[p].st \in {"ct", "pet"}
    /\ \E resp \in RunResponses :
          task' = [task EXCEPT ![p] = PairOnResponse(task[p], resp, CfgRetries(llm))]
    /\ UNCHANGED <<llm, max_rows, df, pc, results, out, fs, retry, row, verdict, ev, bq, laterVars>>

\* a variant of Collect that records the future's result twice
CollectTwice(p) ==
    /\ pc = "collect"
    /\ p \in 1..Len(task)
    /\ task[p].st = "done"
    /\ results' = results \o << ResultOf(WorkDf.index[p], task[p].outcome),
                                ResultOf(WorkDf.index[p], task[p].outcome) >>
    /\ task' = [task EXCEPT ![p].st = "yielded"]
    /\ UNCHANGED <<llm, max_rows, df, pc, out, fs, retry, row, verdict, ev, bq, laterVars>>

\* lines 100-109: as_completed yields a resolved future, in any order
Collect(p) ==
    /\ pc = "collect"
    /\ p \in 1..Len(task)
    /\ task[p].st = "done"
    /\ results' = Append(results, ResultOf(WorkDf.index[p], task[p].outcome))
    /\ task' = [task EXCEPT ![p].st = "yielded"]
    /\ UNCHANGED <<llm, max_rows, df, pc, out, fs, retry, row, verdict, ev, bq, laterVars>>

\* lines 111-144: after the loop, build out_df and write the artifacts
Finish ==
    /\ pc = "collect"
    /\ \A p \in 1..Len(task) : task[p].st = "yielded"
    /\ \E attached \in {AttachResults(WorkDf, results)} :
          IF attached.raised
          THEN /\ pc' = "raised"
               /\ out' = [status |-> "raised", exc |-> attached.exc]
               /\ fs' = fs
          ELSE \E writes \in {ArtifactWrites(attached.v.rows)} :
               \E done \in {WritesDone(writes)} :
                  /\ fs' = [fs EXCEPT !.files = WriteAll(@, done), !.writes = done]
                  /\ IF Len(done) = Len(writes)
                     THEN /\ pc' = "returned"
                          /\ out' = [status |-> "returned", df |-> attached.v]
                     ELSE /\ pc' = "raised"
                          /\ out' = [status |-> "raised", exc |-> "data must be str"]
    /\ UNCHANGED <<llm, max_rows, df, task, results, retry, row, verdict, ev, bq, laterVars>>

Init == RunInit /\ NoRetry /\ NoSel /\ NoQuery /\ NoLater
Next ==
    \/ Begin
    \/ Submit
    \/ \E p \in 1..NumRows : StartTask(p)
    \/ \E p \in 1..NumRows : Attempt(p)
    \/ \E p \in 1..NumRows : Collect(p)
    \/ Finish
Spec == Init /\ [][Next]_vars
\* the main thread and the worker threads keep running, and every request
\* sent by a worker is answered (it returns or raises): as long as some step
\* of the run can be taken, one is taken
Fairness == WF_vars(Next)
SpecLive == Init /\ [][Next]_vars /\ Fairness

\* ------------------------------------------------------------------------
\* One call of _extract_with_retry, with the responses it got
\* ------------------------------------------------------------------------
RetryInit ==
    \E r \in RetryChoices :
        retry = [status |-> "idle", retries |-> r, hist |-> <<>>]
\* the call enters the loop
RetryCall ==
    /\ retry.status = "idle"
    /\ retry' = [status |-> "called", retries |-> retry.retries, hist |-> <<>>,
                 call |-> RetryBegin(retry.retries)]
    /\ UNCHANGED <<runVars, selVars, bq, laterVars>>
\* one attempt: a request and its answer
RetryAttempt ==
    /\ retry.status = "called"
    /\ retry.call.status = "running"
    /\ \E resp \in Responses :
          retry' = [retry EXCEPT !.call = RetryOnResponse(@, resp, retry.retries),
                                 !.hist = Append(@, resp)]
    /\ UNCHANGED <<runVars, selVars, bq, laterVars>>
InitRetry == RetryInit /\ NoRun /\ NoSel /\ NoQuery /\ NoLater
NextRetry == RetryCall \/ RetryAttempt
SpecRetry == InitRetry /\ [][NextRetry]_vars

\* ------------------------------------------------------------------------
\* evaluate_row on one row
\* ------------------------------------------------------------------------
SelInit ==
    /\ row \in SelRows
    /\ verdict = [status |-> "none"]
    /\ ev = [status |-> "none"]
EvaluateRow ==
    /\ verdict = [status |-> "none"]
    /\ verdict' = evaluate_row(row)
    /\ UNCHANGED <<runVars, retry, row, ev, bq, laterVars>>
InitSel == SelInit /\ NoRun /\ NoRetry /\ NoQuery /\ NoLater
NextSel == EvaluateRow
SpecSel == InitSel /\ [][NextSel]_vars

\* ------------------------------------------------------------------------
\* calls of evaluate_row on one row, statement by statement, over the
\* objects a call can reach: the row, the two module-level sets, and the
\* lists made so far (a list object is known by its place in ev.lists).
\* ev.line is the source line of the statement to execute, 0 between calls.
\* ------------------------------------------------------------------------
MaxCalls == 2
\* a variant of NewList: one list made once and used by every call, as a
\* default argument `reasons=[]` would be
SharedList(lists) ==
    IF Len(lists) = 0 THEN [lists |-> <<<<>>>>, id |-> 1] ELSE [lists |-> lists, id |-> 1]
\* line 48, `reasons = []`: a new empty list
NewList(lists) == [lists |-> Append(lists, <<>>), id |-> Len(lists) + 1]
\* `if <failed>: reasons.append(name)`, then on to the statement at line next
ReasonStep(e, failed, name, next) ==
    [e EXCEPT !.lists[e.reasons] = AddReason(@, failed, name), !.line = next]
\* the call ends: it returns (include, reasons), the list itself, or raises
ReturnStep(e, include) ==
    [e EXCEPT !.line = 0,
              !.returns = Append(@, [out |-> Verdict(include, e.lists[e.reasons]),
                                     list |-> e.reasons])]
RaiseStep(e, exc) ==
    [e EXCEPT !.line = 0, !.returns = Append(@, [out |-> Raised(exc), list |-> 0])]
\* the statement of evaluate_row at e.line, executed on the row r
StatementAt(e, r) ==
    CASE e.line = 48 ->
            LET new == NewList(e.lists)
            IN  [e EXCEPT !.lists = new.lists, !.reasons = new.id, !.line = 50]
      [] e.line = 50 ->
            [e EXCEPT !.line = IF Truthy(RowGet(r, "extraction_error")) THEN 51 ELSE 54]
      [] e.line = 51 -> ReasonStep(e, TRUE, "extraction_error", 52)
      [] e.line = 52 -> ReturnStep(e, FALSE)
      [] e.line = 54 ->
            [e EXCEPT !.ct = _parse_json_cell(RowGet(r, "ct_json")), !.line = 55]
      [] e.line = 55 ->
            [e EXCEPT !.pet = _parse_json_cell(RowGet(r, "pet_json")), !.line = 57]
      [] e.line = 57 ->
            IF ~IsDict(e.ct) THEN RaiseStep(e, "AttributeError") ELSE [e EXCEPT !.line = 61]
      [] e.line = 61 ->
            LET chest == _contains_chest(DictGet(e.ct, "CT_Regions", EmptyList))
            IN  IF chest.raised THEN RaiseStep(e, chest.exc)
                ELSE ReasonStep(e, ~chest.v, "ct_not_chest", 63)
      [] e.line = 63 ->
            ReasonStep(e, StrLower(StrStrip(py_str(
                              DictGet(e.ct, "CT_Contrast_Agent", PyStr(""))))) # "none",
                       "ct_contrast_present", 65)
      [] e.line = 65 ->
            LET lung_nodules == DictGet(e.ct, "Lung_Nodules", EmptyList)
            IN  ReasonStep(e, ~Truthy(lung_nodules) \/ lung_nodules = EmptyList,
                           "no_lung_nodules", 68)
      [] e.line = 68 ->
            IF ~IsDict(e.pet) THEN RaiseStep(e, "AttributeError") ELSE [e EXCEPT !.line = 74]
      [] e.line = 74 ->
            LET clinical_reason == DictGet(e.pet, "Clinical_Reason", PyStr(""))
            IN  IF ~IsHashable(clinical_reason) THEN RaiseStep(e, "TypeError")
                ELSE ReasonStep(e, ~InStrSet(clinical_reason, e.allowed.reasons),
                                "pet_reason_not_indeterminate_nodule", 76)
      [] e.line = 76 ->
            LET primary_dx == DictGet(e.pet, "Primary_Diagnosis", PyStr(""))
            IN  IF ~IsHashable(primary_dx) THEN RaiseStep(e, "TypeError")
                ELSE ReasonStep(e, ~InStrSet(primary_dx, e.allowed.diagnoses),
                                "pet_primary_dx_not_allowed", 78)
      [] e.line = 78 ->
            ReasonStep(e, ~_list_empty(DictGet(e.pet, "Lymph_Nodes_Hypermetabolic_Regions",
                                               EmptyList)),
                       "pet_lymph_hypermetabolic", 80)
      [] e.line = 80 ->
            ReasonStep(e, ~_list_empty(DictGet(e.pet, "Other_Hypermetabolic_Regions",
                                               EmptyList)),
                       "pet_other_hypermetabolic", 83)
      [] e.line = 83 -> ReturnStep(e, Len(e.lists[e.reasons]) = 0)

CallsInit ==
    /\ row \in SelRows
    /\ verdict = [status |-> "none"]
    /\ ev = [status |-> "calls", line |-> 0, lists |-> <<>>, reasons |-> 0,
             ct |-> PyNone, pet |-> PyNone,
             allowed |-> [reasons |-> _ALLOWED_REASONS, diagnoses |-> _ALLOWED_DIAGNOSES],
             returns |-> <<>>]
\* the caller calls evaluate_row(row, cfg)
CallEvaluateRow ==
    /\ ev.status = "calls"
    /\ ev.line = 0 /\ Len(ev.returns) < MaxCalls
    /\ ev' = [ev EXCEPT !.line = 48]
    /\ UNCHANGED <<runVars, retry, row, verdict, bq, laterVars>>
\* the running call executes its next statement; no statement of
\* evaluate_row assigns to the row or to a module-level name
EvaluateStep ==
    /\ ev.status = "calls"
    /\ ev.line # 0
    /\ \E e \in {StatementAt(ev, row)} : ev' = e
    /\ UNCHANGED <<runVars, retry, row, verdict, bq, laterVars>>
InitCalls == CallsInit /\ NoRun /\ NoRetry /\ NoQuery /\ NoLater
NextCalls == CallEvaluateRow \/ EvaluateStep
SpecCalls == InitCalls /\ [][NextCalls]_vars

\* ------------------------------------------------------------------------
\* selection.py: apply_selection
\* ------------------------------------------------------------------------
\* ";".join(reasons)
RECURSIVE JoinSemi(_, _)
JoinSemi(reasons, i) ==
    IF i > Len(reasons) THEN ""
    ELSE IF i = Len(reasons) THEN reasons[i]
    ELSE reasons[i] \o ";" \o JoinSemi(reasons, i + 1)
\* the dict appended to audit_rows (lines 91-97)
AuditRow(r, v) ==
    [pt_study_uid |-> RowGet(r, "pt_study_uid"), ct_study_uid |-> RowGet(r, "ct_study_uid"),
     patient_id |-> RowGet(r, "patient_id"), selected |-> PyBool(v.include),
     reasons |-> PyStr(JoinSemi(v.reasons, 1))]
AuditColumns == <<"pt_study_uid", "ct_study_uid", "patient_id", "selected", "reasons">>
\* pd.DataFrame(list of rows): no rows give a table without columns; rows of
\* the input keep their index labels, dicts get 0, 1, 2, ...
FrameOf(index, columns, rows) ==
    IF Len(rows) = 0 THEN DataFrame(<<>>, <<>>, <<>>) ELSE DataFrame(index, columns, rows)

\* a variant of the loop body that appends the row whatever the verdict
ApplyKeepAll(a, r, v) ==
    [a EXCEPT !.i = @ + 1,
              !.audit_rows = Append(@, AuditRow(r, v)),
              !.selected_rows = Append(@, a.i + 1)]
\* the loop body for row r with verdict v (lines 90-99)
ApplyRow(a, r, v) ==
    [a EXCEPT !.i = @ + 1,
              !.audit_rows = Append(@, AuditRow(r, v)),
              !.selected_rows = IF v.include THEN Append(@, a.i + 1) ELSE @]

\* the extracted table: identifiers and the three cells evaluate_row reads
ApplyMaxRows == 2
ApplyCells ==
    {SelRow(PyStr(""), AsText(GoodCt), AsText(GoodPet)),
     SelRow(PyStr(""), AsText(BadCt), AsText(BadPet)),
     SelRow(PyStr(""), AsText(GoodCt), AsText(PetJson(GoodReason, BadDx, EmptyList, EmptyList))),
     SelRow(PyStr("Connection error."), PyStr("{}"), PyStr("{}")),
     SelRow(PyNaN, AsText(GoodCt), AsText(GoodPet)),
     SelRow(PyStr(""), AsText(CtJson(PyNone, GoodContrast, GoodNodules)), AsText(GoodPet))}
ApplyColumns ==
    <<"patient_id", "pt_study_uid", "ct_study_uid", "ct_json", "pet_json", "extraction_error">>
ApplyTables ==
    UNION {{DataFrame([i \in 1..n |-> 2 * i], ApplyColumns,
                      [i \in 1..n |-> cells[i] @@
                          [patient_id |-> PyStr("P1"),
                           pt_study_uid |-> PyStr("PT" \o NatToStr(i)),
                           ct_study_uid |-> PyStr("CT" \o NatToStr(i))]]) :
                cells \in [1..n -> ApplyCells]} : n \in 0..ApplyMaxRows}

ApplyInit ==
    \E d \in ApplyTables :
        ap = [status |-> "loop", df |-> d, i |-> 0, selected_rows |-> <<>>, audit_rows |-> <<>>]
\* one iteration of `for _, row in df.iterrows()`
ApplyIterate ==
    /\ ap.status = "loop"
    /\ ap.i < NRows(ap.df)
    /\ \E v \in {evaluate_row(ap.df.rows[ap.i + 1])} :
          ap' = IF v.raised THEN [ap EXCEPT !.status = "raised"] @@ [exc |-> v.exc]
                ELSE ApplyRow(ap, ap.df.rows[ap.i + 1], v.v)
    /\ UNCHANGED <<runVars, retry, selVars, bq, rd, lg, md, mg>>
\* lines 102-104: the two tables are built and returned
ApplyReturn ==
    /\ ap.status = "loop"
    /\ ap.i = NRows(ap.df)
    /\ ap' = [ap EXCEPT !.status = "returned"] @@
             [selected_df |-> FrameOf([k \in 1..Len(ap.selected_rows) |->
                                            ap.df.index[ap.selected_rows[k]]],
                                      ap.df.columns,
                                      [k \in 1..Len(ap.selected_rows) |->
                                            ap.df.rows[ap.selected_rows[k]]]),
              audit_df |-> FrameOf([k \in 1..Len(ap.audit_rows) |-> k - 1],
                                   AuditColumns, ap.audit_rows)]
    /\ UNCHANGED <<runVars, retry, selVars, bq, rd, lg, md, mg>>
InitApply ==
    /\ ApplyInit /\ NoRun /\ NoRetry /\ NoSel /\ NoQuery
    /\ NoRunDirs /\ NoLegacy /\ NoMatch /\ NoMerge
NextApply == ApplyIterate \/ ApplyReturn
SpecApply == InitApply /\ [][NextApply]_vars

\* ------------------------------------------------------------------------
\* config.py: create_run_dir, and the artifacts the subcommands write
\* ------------------------------------------------------------------------
\* datetime.utcnow().strftime("%Y%m%d_%H%M%S"): one string per second
DateStr(now) == "20260101_00000" \o NatToStr(now)
\* the name of the run directory: run_name or template.format(date=...);
\* a template is [prefix, dated]: "run_{date}" is ["run_", TRUE]
create_run_dir(run_name, template, now) ==
    IF run_name # "" THEN run_name
    ELSE IF template.dated THEN template.prefix \o DateStr(now) ELSE template.prefix
\* what a subcommand does after create_run_dir and setup_logging, in order:
\* a logger.info line, a file written under its run directory, or the
\* api key check at the start of run_extraction (the candidate table has one
\* pair, CT1 and PT1)
Log == [op |-> "log"]
WriteFile(f) == [op |-> "write", file |-> f]
ExtractionSteps ==
    <<[op |-> "api_key"], WriteFile("extractions/ct/CT1.json"),
      WriteFile("extractions/pet/PT1.json")>>
CommandSteps(cmd) ==
    CASE cmd = "query" -> <<Log, WriteFile("candidate_pairs.csv"), Log>>
      [] cmd = "extract" ->
            <<Log>> \o ExtractionSteps \o <<WriteFile("extracted_pairs.csv"), Log>>
      [] cmd = "select" ->
            <<WriteFile("selected_PET_CT_studies.csv"),
              WriteFile("selection_audit_log.csv"), Log, Log>>
      [] cmd = "run" ->
            <<Log, WriteFile("candidate_pairs.csv"), Log, Log>> \o ExtractionSteps
            \o <<WriteFile("extracted_pairs.csv"),
                 WriteFile("selected_PET_CT_studies.csv"),
                 WriteFile("selection_audit_log.csv"), Log, Log>>

MaxInvocations == 2
MaxClock == 1
Commands == {"query", "extract", "select", "run"}
RunNames == {"", "baseline"}
Templates == {[prefix |-> "run_", dated |-> TRUE], [prefix |-> "latest", dated |-> FALSE]}

\* rd.files: path -> the invocation that wrote it last; rd.log: the number of
\* lines each invocation appended to <logs_dir>/pipeline.log, the one log
\* file of all invocations
RunDirsInit ==
    \E t \in Templates, key \in BOOLEAN :
        rd = [status |-> "ready", template |-> t, api_key |-> key, now |-> 0,
              invs |-> <<>>, dirs |-> {}, files |-> <<>>, clobbered |-> {},
              log |-> <<>>]
\* a second passes
Tick ==
    /\ rd.status = "ready"
    /\ rd.now < MaxClock
    /\ rd' = [rd EXCEPT !.now = @ + 1]
    /\ UNCHANGED <<runVars, retry, selVars, bq, ap, lg, md, mg>>
\* a subcommand starts: create_run_dir, with mkdir(parents=True, exist_ok=True),
\* then setup_logging, which opens pipeline.log for appending
Invoke ==
    /\ rd.status = "ready"
    /\ Len(rd.invs) < MaxInvocations
    /\ \E cmd \in Commands, name \in RunNames :
          \E dir \in {create_run_dir(name, rd.template, rd.now)} :
             rd' = [rd EXCEPT !.invs = Append(@, [cmd |-> cmd, run_name |-> name, at |-> rd.now,
                                                   dir |-> dir, pc |-> 1, status |-> "running"]),
                              !.dirs = @ \cup {dir},
                              !.log = Append(@, 0)]
    /\ UNCHANGED <<runVars, retry, selVars, bq, ap, lg, md, mg>>
\* the directories run_extraction makes once the api key is there (lines
\* 72-76): output_dir, output_dir/ct and output_dir/pet
ExtractionDirs(dir) ==
    {dir \o "/extractions", dir \o "/extractions/ct", dir \o "/extractions/pet"}
\* the next step of invocation k; to_csv and write_text replace an existing
\* file; without an api key run_extraction raises and the command ends
CommandStep(k) ==
    /\ rd.status = "ready"
    /\ k \in 1..Len(rd.invs)
    /\ rd.invs[k].status = "running"
    /\ LET steps == CommandSteps(rd.invs[k].cmd)
           step == steps[rd.invs[k].pc]
           path == rd.invs[k].dir \o "/" \o step.file
           next == [rd EXCEPT !.invs[k].pc = @ + 1,
                              !.invs[k].status = IF rd.invs[k].pc = Len(steps)
                                                 THEN "done" ELSE @]
       IN  rd' = CASE step.op = "log" -> [next EXCEPT !.log[k] = @ + 1]
                   [] step.op = "api_key" ->
                         IF rd.api_key
                         THEN [next EXCEPT !.dirs = @ \cup ExtractionDirs(rd.invs[k].dir)]
                         ELSE [rd EXCEPT !.invs[k].status = "raised"]
                   [] OTHER ->
                         [next EXCEPT
                            !.files = (path :> k) @@ @,
                            !.clobbered =
                                IF path \in DOMAIN rd.files /\ rd.files[path] # k
                                THEN @ \cup {[by |-> k, of |-> rd.files[path], path |-> path]}
                                ELSE @]
    /\ UNCHANGED <<runVars, retry, selVars, bq, ap, lg, md, mg>>
InitRunDirs ==
    /\ RunDirsInit /\ NoRun /\ NoRetry /\ NoSel /\ NoQuery
    /\ NoApply /\ NoLegacy /\ NoMatch /\ NoMerge
NextRunDirs == Tick \/ Invoke \/ \E k \in 1..MaxInvocations : CommandStep(k)
SpecRunDirs == InitRunDirs /\ [][NextRunDirs]_vars

\* ------------------------------------------------------------------------
\* one call of _extract_pair with the requests it issues, in order
\* ------------------------------------------------------------------------
PairInit ==
    \E r \in RetryChoices :
        retry = [status |-> "pair", retries |-> r, task |-> [st |-> "queued"], reqs |-> <<>>]
\* the pool starts the unit of work
PairStart ==
    /\ retry.status = "pair"
    /\ retry.task.st = "queued"
    /\ retry' = [retry EXCEPT !.task = _extract_pair(retry.retries)]
    /\ UNCHANGED <<runVars, selVars, bq, laterVars>>
\* one request of the extraction the pair is in, and its answer
PairAttempt ==
    /\ retry.status = "pair"
    /\ retry.task.st \in {"ct", "pet"}
    /\ \E resp \in RunResponses :
          retry' = [retry EXCEPT
                      !.task = PairOnResponse(@, resp, retry.retries),
                      !.reqs = Append(@, [kind |-> retry.task.st, resp |-> resp])]
    /\ UNCHANGED <<runVars, selVars, bq, laterVars>>
InitPair == PairInit /\ NoRun /\ NoSel /\ NoQuery /\ NoLater
NextPair == PairStart \/ PairAttempt
SpecPair == InitPair /\ [][NextPair]_vars

\* ------------------------------------------------------------------------
\* cli.py: extract writes extracted_pairs.csv, select reads it back; run
\* writes the same file and hands the extracted table to apply_selection in
\* memory
\* ------------------------------------------------------------------------
\* DataFrame.to_csv(path, index=False): the text of one field; a missing
\* value is written as the empty field (quoting is undone by the reader)
CsvField(v) ==
    IF v.t = "str" THEN v.s ELSE IF v.t \in {"nan", "null"} THEN "" ELSE py_str(v)
to_csv(d) ==
    [columns |-> d.columns,
     rows |-> [k \in 1..NRows(d) |->
                 [c \in DOMAIN d.rows[k] |-> CsvField(d.rows[k][c])]]]
\* the field texts pandas.read_csv takes for a missing value
NaValues ==
    {"", "#N/A", "#N/A N/A", "#NA", "-1.#IND", "-1.#QNAN", "-NaN", "-nan",
     "1.#IND", "1.#QNAN", "<NA>", "N/A", "NA", "NULL", "NaN", "None", "n/a",
     "nan", "null"}
IsIntText(s) == Len(s) > 0 /\ ScanDigits(s, 1) = Len(s) + 1
\* pandas.read_csv(path): a missing-value text becomes NaN, a column whose
\* other fields are all integers becomes numeric, any other field a string
read_csv(f) ==
    LET n == Len(f.rows)
        Numeric(c) == \A k \in 1..n : f.rows[k][c] \in NaValues \/ IsIntText(f.rows[k][c])
        Cell(k, c) ==
            LET s == f.rows[k][c]
            IN  IF s \in NaValues THEN PyNaN
                ELSE IF Numeric(c) THEN PyNum(DigitsVal(s, 1, Len(s)))
                ELSE PyStr(s)
    IN  DataFrame([k \in 1..n |-> k - 1], f.columns,
                  [k \in 1..n |-> [c \in DOMAIN f.rows[k] |-> Cell(k, c)]])
\* what apply_selection's loop computes for the rows of a table, in order:
\* it ends at the first row on which evaluate_row raises
Verdicts(d) ==
    Bind([k \in 1..NRows(d) |-> evaluate_row(d.rows[k])], LAMBDA all :
        IF \E k \in 1..Len(all) : all[k].raised
        THEN SubSeq(all, 1, CHOOSE k \in 1..Len(all) :
                                /\ all[k].raised
                                /\ \A j \in 1..(k - 1) : ~all[j].raised)
        ELSE all)

CliInit ==
    \E d \in ApplyTables :
        ap = [status |-> "cli", df |-> d, written |-> FALSE, writer |-> "",
              file |-> to_csv(DfHead(d, 0)),
              ran |-> FALSE, run_out |-> <<>>,
              selected |-> FALSE, select_from |-> "", select_out |-> <<>>]
\* extract: out_df.to_csv(out_path, index=False); ap.writer is the command
\* that wrote extracted_pairs.csv last
ExtractWrite ==
    /\ ap.status = "cli"
    /\ ap.writer # "extract"
    /\ \E f \in {to_csv(ap.df)} :
          ap' = [ap EXCEPT !.written = TRUE, !.writer = "extract", !.file = f]
    /\ UNCHANGED <<runVars, retry, selVars, bq, rd, lg, md, mg>>
\* select: pd.read_csv(input_csv), then apply_selection
SelectCmd ==
    /\ ap.status = "cli"
    /\ ap.written /\ ~ap.selected
    /\ \E verdicts \in {Verdicts(read_csv(ap.file))} :
          ap' = [ap EXCEPT !.selected = TRUE, !.select_from = ap.writer,
                           !.select_out = verdicts]
    /\ UNCHANGED <<runVars, retry, selVars, bq, rd, lg, md, mg>>
\* run, lines 126-129: extracted_df.to_csv(extracted_path, index=False),
\* then apply_selection on the table run_extraction returned
RunCmd ==
    /\ ap.status = "cli"
    /\ ~ap.ran
    /\ \E f \in {to_csv(ap.df)}, verdicts \in {Verdicts(ap.df)} :
          ap' = [ap EXCEPT !.written = TRUE, !.writer = "run", !.file = f,
                           !.ran = TRUE, !.run_out = verdicts]
    /\ UNCHANGED <<runVars, retry, selVars, bq, rd, lg, md, mg>>
InitCli ==
    /\ CliInit /\ NoRun /\ NoRetry /\ NoSel /\ NoQuery
    /\ NoRunDirs /\ NoLegacy /\ NoMatch /\ NoMerge
NextCli == ExtractWrite \/ SelectCmd \/ RunCmd
SpecCli == InitCli /\ [][NextCli]_vars

\* ------------------------------------------------------------------------
\* legacy extract_data.py: main, process_row, extract_with_retry
\* ------------------------------------------------------------------------
MAX_RETRIES == 3
\* lines 311-325: the fields main adds to the columns of the input
extracted_fields ==
    <<"clinical_reason", "primary_diagnosis", "ct_regions",
      "ct_contrast_agent_extracted", "lung_nodules", "lung_hypermetabolic",
      "lymph_nodes_hypermetabolic", "other_hypermetabolic", "pet_tracer",
      "pet_scan_region", "pet_blood_glucose_level", "pet_waiting_time", "success">>
\* lines 309, 328-330: the header of the output CSV, the columns of the input
\* and then the extracted fields the input does not have
all_columns(columns) ==
    columns \o SelectSeq(extracted_fields, LAMBDA f : f \notin SeqRange(columns))
\* the place of a name in a header (0: absent)
ColumnAt(header, name) ==
    IF name \in SeqRange(header) THEN CHOOSE i \in 1..Len(header) : header[i] = name ELSE 0
\* the output CSV after its header is a sequence of lines: the text of the
\* line without its terminator, the run that began it, and whether it is
\* still open (no terminator written). The cells of a line are the texts
\* between its commas; no cell of the model needs quoting.
RECURSIVE SplitFrom(_, _, _)
SplitFrom(s, i, cell) ==
    IF i > Len(s) THEN <<cell>>
    ELSE IF CharAt(s, i) = "," THEN <<cell>> \o SplitFrom(s, i + 1, "")
    ELSE SplitFrom(s, i + 1, cell \o CharAt(s, i))
Cells(line) == SplitFrom(line.text, 1, "")
\* a line of blanks only, which pandas.read_csv skips
IsBlankLine(line) == \A i \in 1..Len(line.text) : CharAt(line.text, i) \in {" ", "\t"}
\* load_processed_row_ids: pd.read_csv(OUTPUT_CSV, dtype=str), then the
\* pt_row_id column without its missing values, as written. A line shorter
\* than the table is filled with missing values; when the first data line has
\* more cells than the header the leading cells become the index and the
\* names move right; a later line with more cells than the table makes
\* read_csv raise, which is caught, and the set is empty.
load_processed_row_ids(csv, header) ==
    Bind(SelectSeq(csv, LAMBDA l : ~IsBlankLine(l)), LAMBDA data :
    Bind([i \in 1..Len(data) |-> Cells(data[i])], LAMBDA cells :
        LET n == Len(header)
            width == IF Len(cells) = 0 \/ Len(cells[1]) < n THEN n ELSE Len(cells[1])
            col == width - n + ColumnAt(header, "pt_row_id")
        IN  IF \E i \in 2..Len(cells) : Len(cells[i]) > width THEN {}
            ELSE IF ColumnAt(header, "pt_row_id") = 0 THEN {}
            ELSE {cells[i][col] : i \in {j \in 1..Len(cells) :
                                            /\ Len(cells[j]) >= col
                                            /\ cells[j][col] \notin NaValues}}))
\* row[name] = value on the thread's copy of the row
SetItem(r, name, value) == (name :> value) @@ r
\* update_row_with_extraction (lines 143-182)
update_row_with_extraction(r, extracted_data) ==
    [name \in {extracted_fields[i] : i \in 1..Len(extracted_fields)} |->
        CASE name = "clinical_reason" -> DictGet(extracted_data, "Clinical_Reason", PyStr(""))
          [] name = "primary_diagnosis" -> DictGet(extracted_data, "Primary_Diagnosis", PyStr(""))
          [] name = "ct_regions" ->
                PyStr(json_dumps(DictGet(extracted_data, "CT_Regions", EmptyList)))
          [] name = "ct_contrast_agent_extracted" ->
                DictGet(extracted_data, "CT_Contrast_Agent", PyStr(""))
          [] name = "lung_nodules" ->
                PyStr(json_dumps(DictGet(extracted_data, "Lung_Nodules", EmptyList)))
          [] name = "lung_hypermetabolic" ->
                PyStr(json_dumps(DictGet(extracted_data, "Lung_Hypermetabolic_Regions", EmptyList)))
          [] name = "lymph_nodes_hypermetabolic" ->
                PyStr(json_dumps(DictGet(extracted_data, "Lymph_Nodes_Hypermetabolic_Regions",
                                         EmptyList)))
          [] name = "other_hypermetabolic" ->
                PyStr(json_dumps(DictGet(extracted_data, "Other_Hypermetabolic_Regions", EmptyList)))
          [] name = "pet_tracer" -> DictGet(extracted_data, "PET_Tracer", PyStr(""))
          [] name = "pet_scan_region" -> DictGet(extracted_data, "PET_Scan_Region", PyStr(""))
          [] name = "pet_blood_glucose_level" ->
                DictGet(extracted_data, "PET_Blood_Glucose_Level", PyStr(""))
          [] name = "pet_waiting_time" -> DictGet(extracted_data, "PET_Waiting_Time", PyStr(""))
          [] name = "success" -> PyBool(TRUE)]
    @@ r
\* csv.DictWriter(csvfile, fieldnames=header).writerow(row.to_dict()): the
\* text of one cell (None and a missing key give the empty cell, any other
\* value its str) and the bytes of the row
WriterCell(r, name) ==
    IF name \notin DOMAIN r \/ r[name].t = "null" THEN "" ELSE py_str(r[name])
RECURSIVE JoinCells(_, _, _)
JoinCells(r, header, i) ==
    IF i > Len(header) THEN ""
    ELSE (IF i = 1 THEN "" ELSE ",") \o WriterCell(r, header[i]) \o JoinCells(r, header, i + 1)
RowLine(r, header) == JoinCells(r, header, 1)
RowText(r, header) == RowLine(r, header) \o "\r\n"
\* the file after the first n bytes of a row text were added to it: they
\* go on the last line when it is open, and the line is closed once the
\* carriage return is written
AppendBytes(csv, text, n, run) ==
    LET body == SubSeq(text, 1, IF n > Len(text) - 2 THEN Len(text) - 2 ELSE n)
        open == n <= Len(text) - 2
    IN  IF n = 0 THEN csv
        ELSE IF Len(csv) > 0 /\ csv[Len(csv)].open
        THEN [csv EXCEPT ![Len(csv)].text = @ \o body, ![Len(csv)].open = open]
        ELSE Append(csv, [text |-> body, run |-> run, open |-> open])
\* row_id = str(row.get('pt_row_id', '')).strip()
RowId(r) == StrStrip(py_str(RowGetDefault(r, "pt_row_id", PyStr(""))))
\* the branch of process_row a row takes (lines 239-251): it has a
\* clinical_reason, it has no report text, or it goes to the extraction
Kind(r) ==
    LET clinical_reason == RowGetDefault(r, "clinical_reason", PyStr(""))
        report_text == RowGetDefault(r, "combined_report", PyStr(""))
    IN  IF clinical_reason.t # "nan" /\ StrStrip(py_str(clinical_reason)) # ""
        THEN "has_reason"
        ELSE IF ~Truthy(report_text) THEN "no_report"
        ELSE "extract"
\* main, lines 337-343: the rows submitted to the pool, as fresh threads
RowsToProcess(rows, processed) ==
    LET keep == SelectSeq(rows, LAMBDA r : RowId(r) # "" /\ RowId(r) \notin processed)
    IN  [t \in 1..Len(keep) |-> [pc |-> "start", row |-> keep[t], failed |-> 0]]
\* process_row after the check: the branch the row takes (lines 239-263)
AfterCheck(th, processed) ==
    IF RowId(th.row) \in processed THEN [th EXCEPT !.pc = "skipped"]
    ELSE IF Kind(th.row) = "has_reason"
    THEN [th EXCEPT !.pc = "ready", !.row = SetItem(@, "success", PyBool(TRUE))]
    ELSE IF Kind(th.row) = "no_report"
    THEN [th EXCEPT !.pc = "ready", !.row = SetItem(@, "success", PyBool(FALSE))]
    ELSE [th EXCEPT !.pc = "extract"]
\* what one attempt of extract_with_retry can meet: the answer parses to a
\* non-empty mapping, to an empty value, to a non-empty list, or the request
\* or the parse raises
Answers == {"mapping", "empty", "list", "error"}
\* the non-empty mapping of the model's answers
ExtractedData == PyDict(<<KV("Clinical_Reason", PyStr("e"))>>)
\* one attempt of extract_with_retry (lines 201-213) and, when it returns,
\* lines 265-268; th.failed counts the failed attempts, attempt = failed + 1.
\* A list has no .get, so update_row_with_extraction raises on it.
AfterAttempt(th, answer) ==
    IF answer = "mapping"
    THEN [th EXCEPT !.pc = "ready", !.row = update_row_with_extraction(@, ExtractedData)]
    ELSE IF answer = "empty"
    THEN [th EXCEPT !.pc = "ready", !.row = SetItem(@, "success", PyBool(FALSE))]
    ELSE IF answer = "list" THEN [th EXCEPT !.pc = "raised"]
    ELSE IF th.failed + 1 < MAX_RETRIES THEN [th EXCEPT !.failed = @ + 1]
    ELSE [th EXCEPT !.failed = @ + 1, !.pc = "ready",
                    !.row = SetItem(@, "success", PyBool(FALSE))]

\* the input CSV as pd.read_csv(INPUT_CSV, dtype=str) gives it: with or
\* without a combined_report column; pt_row_id cells (one with a leading
\* blank, ids may repeat), a clinical_reason or none (NaN), a report text
MaxRuns == 2
LegacyRowCount == 2
\* the appends that a write error cuts after a part of the row, at most
MaxCutWrites == 1
LegacyIds == {"A", " B"}
LegacyColumns ==
    {<<"pt_row_id", "clinical_reason">>, <<"pt_row_id", "clinical_reason", "combined_report">>}
LegacyCells(name) ==
    CASE name = "pt_row_id" -> {PyStr(id) : id \in LegacyIds}
      [] name = "clinical_reason" -> {PyStr("k"), PyNaN}
      [] name = "combined_report" -> {PyStr("r")}
LegacyRows(columns) ==
    {r \in [SeqRange(columns) -> UNION {LegacyCells(c) : c \in SeqRange(columns)}] :
        \A c \in SeqRange(columns) : r[c] \in LegacyCells(c)}

LegacyInit ==
    \E columns \in LegacyColumns :
    \E rows \in [1..LegacyRowCount -> LegacyRows(columns)] :
        lg = [status |-> "running", run |-> 1, columns |-> columns, rows |-> rows,
              csv |-> <<>>, processed |-> {}, lock |-> 0, cuts |-> 0,
              threads |-> RowsToProcess(rows, {})]
\* a variant of LAcquire that enters without waiting for the lock
LAcquireNoWait(t) ==
    /\ lg.status = "running"
    /\ t \in 1..Len(lg.threads)
    /\ lg.threads[t].pc \in {"start", "ready"}
    /\ lg' = [lg EXCEPT !.lock = t,
                        !.threads[t].pc = IF @ = "start" THEN "in_check" ELSE "appending"]
    /\ UNCHANGED <<runVars, retry, selVars, bq, ap, rd, md, mg>>
\* `with csv_lock:` entered, before the check or before the append
LAcquire(t) ==
    /\ lg.status = "running"
    /\ t \in 1..Len(lg.threads)
    /\ lg.threads[t].pc \in {"start", "ready"}
    /\ lg.lock = 0
    /\ lg' = [lg EXCEPT !.lock = t,
                        !.threads[t].pc = IF @ = "start" THEN "in_check" ELSE "appending"]
    /\ UNCHANGED <<runVars, retry, selVars, bq, ap, rd, md, mg>>
\* lines 233-236: the check under the lock; the lock is released after it
LCheck(t) ==
    /\ lg.status = "running"
    /\ t \in 1..Len(lg.threads)
    /\ lg.threads[t].pc = "in_check"
    /\ lg' = [lg EXCEPT !.lock = 0, !.threads[t] = AfterCheck(@, lg.processed)]
    /\ UNCHANGED <<runVars, retry, selVars, bq, ap, rd, md, mg>>
\* one extraction attempt
LAttempt(t) ==
    /\ lg.status = "running"
    /\ t \in 1..Len(lg.threads)
    /\ lg.threads[t].pc = "extract"
    /\ \E answer \in Answers : lg' = [lg EXCEPT !.threads[t] = AfterAttempt(@, answer)]
    /\ UNCHANGED <<runVars, retry, selVars, bq, ap, rd, md, mg>>
\* lines 273-277 (and 243-247, 256-260): append the row and add the id,
\* under the lock. A write error (open fails, the disk is full, the file
\* size limit is reached) leaves the first n bytes of the row in the file,
\* n from 0 to all but the last, and leaves the with block, which releases
\* the lock, before the id is added.
LAppend(t) ==
    /\ lg.status = "running"
    /\ t \in 1..Len(lg.threads)
    /\ lg.threads[t].pc = "appending"
    /\ \E text \in {RowText(lg.threads[t].row, all_columns(lg.columns))} :
       \E n \in 0..Len(text) :
          /\ n \in 1..(Len(text) - 1) => lg.cuts < MaxCutWrites
          /\ \E csv \in {AppendBytes(lg.csv, text, n, lg.run)} :
                lg' = IF n < Len(text)
                      THEN [lg EXCEPT !.lock = 0, !.threads[t].pc = "raised",
                                      !.csv = csv,
                                      !.cuts = IF n = 0 THEN @ ELSE @ + 1]
                      ELSE [lg EXCEPT !.lock = 0, !.threads[t].pc = "done",
                                      !.csv = csv,
                                      !.processed = @ \cup {RowId(lg.threads[t].row)}]
    /\ UNCHANGED <<runVars, retry, selVars, bq, ap, rd, md, mg>>
\* the pool is drained and the script is run again on the same input
LNextRun ==
    /\ lg.status = "running"
    /\ lg.run < MaxRuns
    /\ \A t \in 1..Len(lg.threads) : lg.threads[t].pc \in {"skipped", "done", "raised"}
    /\ \E processed \in {load_processed_row_ids(lg.csv, all_columns(lg.columns))} :
          lg' = [lg EXCEPT !.run = @ + 1, !.processed = processed, !.lock = 0,
                           !.threads = RowsToProcess(lg.rows, processed)]
    /\ UNCHANGED <<runVars, retry, selVars, bq, ap, rd, md, mg>>
InitLegacy ==
    /\ LegacyInit /\ NoRun /\ NoRetry /\ NoSel /\ NoQuery
    /\ NoApply /\ NoRunDirs /\ NoMatch /\ NoMerge
NextLegacy ==
    \/ \E t \in 1..LegacyRowCount : LAcquire(t)
    \/ \E t \in 1..LegacyRowCount : LCheck(t)
    \/ \E t \in 1..LegacyRowCount : LAttempt(t)
    \/ \E t \in 1..LegacyRowCount : LAppend(t)
    \/ LNextRun
SpecLegacy == InitLegacy /\ [][NextLegacy]_vars

\* ------------------------------------------------------------------------
\* legacy match_dicom.py: match_and_rename_by_z
\* ------------------------------------------------------------------------
\* the keys summary[study_id] is created with (lines 157-163)
SummaryKeys == {"ct_count", "pet_count", "matched_slices", "errors", "warnings"}
\* file names in a folder: the target name <study_id>_<index>.dcm of a slice,
\* and the name a slice came with
TargetName(slice) == <<"target", slice[1], slice[2]>>
OwnName(slice) == <<"own", slice[1], slice[2]>>
\* one rename block (lines 207-219, 221-233) for a slice in a folder. A target
\* that exists is not renamed onto, and its warning is appended to
\* summary[study_id]["trivial_warnings"], a key the summary does not have,
\* which raises KeyError. Otherwise os.rename moves the slice's file to the
\* target name, or raises OSError (fails), which is caught and recorded.
TryRename(m, folder, slice, fails) ==
    IF <<folder, TargetName(slice)>> \in m.exists
    THEN IF "trivial_warnings" \in SummaryKeys
         THEN [m EXCEPT !.trivial_warnings = @ \cup {<<folder, slice>>}, !.last = "skipped"]
         ELSE [m EXCEPT !.status = "raised", !.exc = "KeyError", !.last = "raised"]
    ELSE IF fails
    THEN [m EXCEPT !.errors = @ \cup {<<folder, slice>>}, !.last = "error"]
    ELSE [m EXCEPT !.exists = (@ \ {<<folder, m.src[<<folder, slice>>]>>})
                                \cup {<<folder, TargetName(slice)>>},
                   !.renamed = @ \cup {<<folder, slice>>},
                   !.last = "renamed"]
\* one iteration of `for i in range(n)` (lines 191-235)
MatchOne(m, slice, ct_fails, pet_fails) ==
    IF slice \in m.too_far
    THEN [m EXCEPT !.errors = @ \cup {<<"z", slice>>}, !.pos = @ + 1]
    ELSE LET ct == TryRename(m, "ct", slice, ct_fails)
         IN  IF ct.last = "raised" THEN ct
             ELSE IF ct.last = "error" THEN [ct EXCEPT !.pos = @ + 1]
             ELSE LET pet == TryRename(ct, "pet", slice, pet_fails)
                  IN  IF pet.last = "raised" THEN pet
                      ELSE IF pet.last = "error" THEN [pet EXCEPT !.pos = @ + 1]
                      ELSE [pet EXCEPT !.matched = @ \cup {slice}, !.pos = @ + 1]

\* the common studies in sorted order, SlicesPerStudy matched slices each
MaxStudies == 2
SlicesPerStudy == 2
SliceAt(pos) == <<(pos \div SlicesPerStudy) + 1, (pos % SlicesPerStudy) + 1>>
AllSlices == {SliceAt(q) : q \in 0..(MaxStudies * SlicesPerStudy - 1)}
\* how the files of a study lie in a folder before the run: under their own
\* names; under the target names (an earlier run renamed them); the lowest
\* slice under the target name of the second; or under their own names next
\* to another file that has the first target name
Layouts == {"fresh", "renamed", "shifted", "blocked"}
SourceName(layout, slice) ==
    IF layout = "renamed" THEN TargetName(slice)
    ELSE IF layout = "shifted" /\ slice[2] = 1 THEN TargetName(<<slice[1], 2>>)
    ELSE OwnName(slice)
FolderFiles(folder, layout) ==
    {<<folder, SourceName(layout[folder, sl[1]], sl)>> : sl \in AllSlices}
    \cup {<<folder, TargetName(<<st, 1>>)>> :
            st \in {q \in 1..MaxStudies : layout[folder, q] = "blocked"}}
MatchInit ==
    \E layout \in [{"ct", "pet"} \X (1..MaxStudies) -> Layouts],
       far \in {{}} \cup {{sl} : sl \in AllSlices} :
        md = [status |-> "loop", pos |-> 0, too_far |-> far,
              src |-> [at \in {"ct", "pet"} \X AllSlices |->
                          SourceName(layout[at[1], at[2][1]], at[2])],
              exists |-> FolderFiles("ct", layout) \cup FolderFiles("pet", layout),
              existed |-> FolderFiles("ct", layout) \cup FolderFiles("pet", layout),
              renamed |-> {}, trivial_warnings |-> {}, errors |-> {},
              matched |-> {}, exc |-> "", last |-> ""]
MatchSlice ==
    /\ md.status = "loop"
    /\ md.pos < MaxStudies * SlicesPerStudy
    /\ \E ct_fails, pet_fails \in BOOLEAN :
          \E m \in {MatchOne(md, SliceAt(md.pos), ct_fails, pet_fails)} : md' = m
    /\ UNCHANGED <<runVars, retry, selVars, bq, ap, rd, lg, mg>>
\* lines 239-253: the final summary is printed
MatchSummary ==
    /\ md.status = "loop"
    /\ md.pos = MaxStudies * SlicesPerStudy
    /\ md' = [md EXCEPT !.status = "summary"]
    /\ UNCHANGED <<runVars, retry, selVars, bq, ap, rd, lg, mg>>
InitMatch ==
    /\ MatchInit /\ NoRun /\ NoRetry /\ NoSel /\ NoQuery
    /\ NoApply /\ NoRunDirs /\ NoLegacy /\ NoMerge
NextMatch == MatchSlice \/ MatchSummary
SpecMatch == InitMatch /\ [][NextMatch]_vars

\* ------------------------------------------------------------------------
\* legacy merge_pet_batch.py: process_uncompressed_directory over the series
\* of the input, a run that may be cut at any point, and a run after it
\* ------------------------------------------------------------------------
\* check_existing_series: the series directory exists in the output
check_existing_series(output, series) == output[series].dir
\* create_target_directory: os.makedirs(target_dir, exist_ok=True)
create_target_directory(output, series) == [output EXCEPT ![series].dir = TRUE]

NumSeries == 2
MaxFiles == 2
EmptyOutput ==
    [s \in 1..NumSeries |-> [dir |-> FALSE, files |-> {}, partial |-> {}, metadata |-> FALSE]]
MergeInit ==
    \E files \in [1..NumSeries -> 1..MaxFiles] :
        mg = [status |-> "running", run |-> 1, files |-> files, series |-> 1,
              step |-> "check", k |-> 1, output |-> EmptyOutput, skipped |-> {},
              cut |-> 0]
\* lines 298-304: a series whose directory exists is skipped, otherwise its
\* directory is created
MergeCheck ==
    /\ mg.status = "running"
    /\ mg.series <= NumSeries /\ mg.step = "check"
    /\ mg' = IF check_existing_series(mg.output, mg.series)
             THEN [mg EXCEPT !.series = @ + 1]
             ELSE [mg EXCEPT !.output = create_target_directory(@, mg.series),
                             !.step = "copy", !.k = 1]
    /\ UNCHANGED <<runVars, retry, selVars, bq, ap, rd, lg, md>>
\* lines 306-312, one iteration of `for dicom_file in dicom_files`: the file
\* is not copied when extract_dicom_metadata or copy_dicom_file returns None
\* (an unreadable file, an exception of the copy, which is caught), and the
\* loop goes on; otherwise shutil.copy2 starts to write the target file
MergeCopy ==
    /\ mg.status = "running"
    /\ mg.series <= NumSeries /\ mg.step = "copy"
    /\ \E copied \in BOOLEAN :
          mg' = IF mg.k > mg.files[mg.series] THEN [mg EXCEPT !.step = "metadata"]
                ELSE IF copied
                THEN [mg EXCEPT !.output[mg.series].partial = @ \cup {mg.k},
                                !.step = "copying"]
                ELSE [mg EXCEPT !.skipped = @ \cup {<<mg.series, mg.k>>}, !.k = @ + 1]
    /\ UNCHANGED <<runVars, retry, selVars, bq, ap, rd, lg, md>>
\* shutil.copy2 ends: it has written the whole file, or it raised after it
\* began to write; copy_dicom_file catches the exception (lines 211-215) and
\* returns None, the truncated target file stays and the loop goes on
MergeCopyEnd ==
    /\ mg.status = "running"
    /\ mg.series <= NumSeries /\ mg.step = "copying"
    /\ \E whole \in BOOLEAN :
          mg' = IF whole
                THEN [mg EXCEPT !.output[mg.series].partial = @ \ {mg.k},
                                !.output[mg.series].files = @ \cup {mg.k},
                                !.k = @ + 1, !.step = "copy"]
                ELSE [mg EXCEPT !.skipped = @ \cup {<<mg.series, mg.k>>},
                                !.k = @ + 1, !.step = "copy"]
    /\ UNCHANGED <<runVars, retry, selVars, bq, ap, rd, lg, md>>
\* lines 314-317: series_metadata.json is written
MergeMetadata ==
    /\ mg.status = "running"
    /\ mg.series <= NumSeries /\ mg.step = "metadata"
    /\ mg' = [mg EXCEPT !.output[mg.series].metadata = TRUE,
                        !.series = @ + 1, !.step = "check"]
    /\ UNCHANGED <<runVars, retry, selVars, bq, ap, rd, lg, md>>
\* the run has gone through every series
MergeEnd ==
    /\ mg.status = "running"
    /\ mg.series > NumSeries
    /\ mg' = [mg EXCEPT !.status = "finished"]
    /\ UNCHANGED <<runVars, retry, selVars, bq, ap, rd, lg, md>>
\* the first run is cut (the process is killed) at any point
MergeInterrupt ==
    /\ mg.status = "running" /\ mg.run = 1
    /\ mg' = [mg EXCEPT !.status = "interrupted",
                        !.cut = IF mg.series <= NumSeries /\ mg.step # "check"
                                THEN mg.series ELSE 0]
    /\ UNCHANGED <<runVars, retry, selVars, bq, ap, rd, lg, md>>
\* the script is run again on the same input and output directories
MergeRerun ==
    /\ mg.status = "interrupted"
    /\ mg' = [mg EXCEPT !.status = "running", !.run = 2, !.series = 1, !.step = "check"]
    /\ UNCHANGED <<runVars, retry, selVars, bq, ap, rd, lg, md>>
InitMerge ==
    /\ MergeInit /\ NoRun /\ NoRetry /\ NoSel /\ NoQuery
    /\ NoApply /\ NoRunDirs /\ NoLegacy /\ NoMatch
NextMerge ==
    \/ MergeCheck \/ MergeCopy \/ MergeCopyEnd \/ MergeMetadata \/ MergeEnd
    \/ MergeInterrupt \/ MergeRerun
SpecMerge == InitMerge /\ [][NextMerge]_vars

\* ------------------------------------------------------------------------
\* bq.py: build_candidate_pairs_query, and the query command that sends it
\* ------------------------------------------------------------------------
\* cfg.bigquery.get(key)
BqGet(bigquery, key) == IF key \in DOMAIN bigquery THEN bigquery[key] ELSE PyNone
RequiredMsg == "bigquery.dataset and bigquery.table are required"
\* the table reference of the FROM clause, as the f-string renders it
TableReference(bigquery, dataset, table) ==
    py_str(BqGet(bigquery, "project")) \o "." \o py_str(dataset) \o "." \o py_str(table)
\* sample_limit: 0 stands for None
LimitClause(sample_limit) ==
    IF sample_limit # 0 THEN "LIMIT " \o NatToStr(sample_limit) ELSE ""
\* the query text, as the parts of it that come from cfg.bigquery and the limit
build_candidate_pairs_query(bigquery, sample_limit) ==
    LET dataset == BqGet(bigquery, "dataset")
        table == BqGet(bigquery, "table")
    IN  IF ~Truthy(dataset) \/ ~Truthy(table) THEN Raised(RequiredMsg)
        ELSE Returned([table_reference |-> TableReference(bigquery, dataset, table),
                       limit_clause |-> LimitClause(sample_limit)])

\* cfg.bigquery: each identifier named, empty, or not in the mapping
BqKeys == {"project", "dataset", "table"}
BqNames == [project |-> "my-project", dataset |-> "imaging", table |-> "studies"]
BigqueryConfigs ==
    UNION {{[k \in ks |-> IF k \in named THEN PyStr(BqNames[k]) ELSE PyStr("")] :
                named \in SUBSET ks} : ks \in SUBSET BqKeys}
SampleLimits == {0, 5, 100}

QueryInit ==
    \E c \in BigqueryConfigs, l \in SampleLimits :
        bq = [status |-> "start", bigquery |-> c, limit |-> l, sent |-> <<>>]
\* sql = build_candidate_pairs_query(cfg, sample_limit=...)
BuildQuery ==
    /\ bq.status = "start"
    /\ \E r \in {build_candidate_pairs_query(bq.bigquery, bq.limit)} :
          bq' = IF r.raised
                THEN [bq EXCEPT !.status = "raised"] @@ [exc |-> r.exc]
                ELSE [bq EXCEPT !.status = "built"] @@ [sql |-> r.v]
    /\ UNCHANGED <<runVars, retry, selVars, laterVars>>
\* run_query(cfg, sql): client.query(sql) sends the query
RunQuery ==
    /\ bq.status = "built"
    /\ bq' = [bq EXCEPT !.status = "sent", !.sent = Append(@, bq.sql)]
    /\ UNCHANGED <<runVars, retry, selVars, laterVars>>
InitQuery == QueryInit /\ NoRun /\ NoRetry /\ NoSel /\ NoLater
NextQuery == BuildQuery \/ RunQuery
SpecQuery == InitQuery /\ [][NextQuery]_vars

\* ------------------------------------------------------------------------
\* Properties of evaluate_row (SpecSel)
\* ------------------------------------------------------------------------
Evaluated == "raised" \in DOMAIN verdict
ReturnedVerdict == Evaluated /\ ~verdict.raised
NoExtractionError == ~Truthy(RowGet(row, "extraction_error"))
CtOf(r) == _parse_json_cell(RowGet(r, "ct_json"))
PetOf(r) == _parse_json_cell(RowGet(r, "pet_json"))
Recorded(name) == \E i \in 1..Len(verdict.v.reasons) : verdict.v.reasons[i] = name

\* C5: a row whose extraction_error is a non-empty string gets the verdict
\* False with the reasons exactly <<"extraction_error">>, whatever its
\* ct_json and pet_json cells hold.
C5_ErrorRowExcluded ==
    (Evaluated /\ IsStr(RowGet(row, "extraction_error"))
               /\ RowGet(row, "extraction_error").s # "")
    => verdict = Verdict(FALSE, <<"extraction_error">>)
\* an error row whose ct_json cell alone would make the rules raise
C5_Witness ==
    /\ Evaluated
    /\ RowGet(row, "extraction_error") = PyStr("Connection error.")
    /\ RowGet(row, "ct_json") = PyStr("[]")
    /\ verdict = Verdict(FALSE, <<"extraction_error">>)

\* the seven rules in the order of the code, and when each one fails on the
\* parsed cells ct and pet
RuleNames ==
    <<"ct_not_chest", "ct_contrast_present", "no_lung_nodules",
      "pet_reason_not_indeterminate_nodule", "pet_primary_dx_not_allowed",
      "pet_lymph_hypermetabolic", "pet_other_hypermetabolic">>
RuleFails(name, ct, pet) ==
    CASE name = "ct_not_chest" ->
            ~_contains_chest(DictGet(ct, "CT_Regions", EmptyList)).v
      [] name = "ct_contrast_present" ->
            StrLower(StrStrip(py_str(DictGet(ct, "CT_Contrast_Agent", PyStr(""))))) # "none"
      [] name = "no_lung_nodules" ->
            ~Truthy(DictGet(ct, "Lung_Nodules", EmptyList))
      [] name = "pet_reason_not_indeterminate_nodule" ->
            DictGet(pet, "Clinical_Reason", PyStr("")) # PyStr("Indeterminate Pulmonary Nodule")
      [] name = "pet_primary_dx_not_allowed" ->
            DictGet(pet, "Primary_Diagnosis", PyStr(""))
                \notin {PyStr("Primary Lung Cancer"), PyStr("No Cancer")}
      [] name = "pet_lymph_hypermetabolic" ->
            ~_list_empty(DictGet(pet, "Lymph_Nodes_Hypermetabolic_Regions", EmptyList))
      [] name = "pet_other_hypermetabolic" ->
            ~_list_empty(DictGet(pet, "Other_Hypermetabolic_Regions", EmptyList))
FailingRules(r) ==
    Bind(CtOf(r), LAMBDA ct :
        Bind(PetOf(r), LAMBDA pet :
            SelectSeq(RuleNames, LAMBDA name : RuleFails(name, ct, pet))))

\* C6: for a row without extraction_error on which evaluate_row returns, the
\* reasons are exactly the names of the rules that fail, each rule judged on
\* its own, in the order of the code, and the verdict is True iff there is
\* none.
C6_AllRulesRecorded ==
    (ReturnedVerdict /\ NoExtractionError)
    => /\ verdict.v.reasons = FailingRules(row)
       /\ verdict.v.include = (verdict.v.reasons = <<>>)
\* lung nodules [] and lymph findings [{"size_mm": "5"}]: both are recorded
C6_Witness ==
    /\ ReturnedVerdict /\ NoExtractionError
    /\ DictGet(CtOf(row), "Lung_Nodules", PyNone) = EmptyList
    /\ DictGet(PetOf(row), "Lymph_Nodes_Hypermetabolic_Regions", PyNone) = BadFindings
    /\ Recorded("no_lung_nodules") /\ Recorded("pet_lymph_hypermetabolic")
    /\ ~verdict.v.include

\* what does hold as well: every call, executed statement by statement,
\* ends as the function evaluate_row of the row does
StatementsAgree ==
    \A i \in 1..Len(ev.returns) : ev.returns[i].out = evaluate_row(row)
\* C11: every later evaluation of the row gives the verdict and the reasons
\* (or the exception) of the first one; and no statement of an evaluation changes
\* the row, the module-level sets a later evaluation reads, or the reason
\* list an earlier evaluation returned.
C11_EvaluateRowPure ==
    /\ [](\A i, j \in 1..Len(ev.returns) : ev.returns[i].out = ev.returns[j].out)
    /\ [][/\ row' = row
          /\ ev'.allowed = ev.allowed
          /\ \A i \in 1..Len(ev.returns) :
                ev.returns[i].list # 0
                => ev'.lists[ev.returns[i].list] = ev.lists[ev.returns[i].list]]_vars
\* evaluated twice with several reasons, returned in two list objects
C11_Witness ==
    /\ ev.status = "calls" /\ Len(ev.returns) = 2
    /\ ~ev.returns[2].out.raised /\ Len(ev.returns[2].out.v.reasons) >= 2
    /\ ev.returns[1].list # ev.returns[2].list
    /\ ev.lists[ev.returns[1].list] = ev.lists[ev.returns[2].list]

\* C7: evaluate_row returns a verdict for every row; it never raises.
C7_NeverRaises == Evaluated => ~verdict.raised

\* a field is missing from a parsed cell: the key is absent or holds null
\* (a cell that cannot be parsed is the empty mapping: every key is absent)
Missing(d, key) == IsDict(d) /\ (~DictHas(d, key) \/ IsNone(DictAt(d, key)))
CtFieldRules ==
    {<<"CT_Regions", "ct_not_chest">>, <<"CT_Contrast_Agent", "ct_contrast_present">>,
     <<"Lung_Nodules", "no_lung_nodules">>}
PetFieldRules ==
    {<<"Clinical_Reason", "pet_reason_not_indeterminate_nodule">>,
     <<"Primary_Diagnosis", "pet_primary_dx_not_allowed">>}

\* C8: when evaluate_row returns for a row without extraction_error, each of
\* CT_Regions, CT_Contrast_Agent, Lung_Nodules, Clinical_Reason and
\* Primary_Diagnosis that is missing has its rule's reason recorded.
C8_MissingFieldFails ==
    (ReturnedVerdict /\ NoExtractionError)
    => /\ \A fr \in CtFieldRules : Missing(CtOf(row), fr[1]) => Recorded(fr[2])
       /\ \A fr \in PetFieldRules : Missing(PetOf(row), fr[1]) => Recorded(fr[2])

\* the value of a findings field of the parsed PET cell, Absent without the key
FindingsFields ==
    {<<"Lymph_Nodes_Hypermetabolic_Regions", "pet_lymph_hypermetabolic">>,
     <<"Other_Hypermetabolic_Regions", "pet_other_hypermetabolic">>}
FieldOf(d, key) == IF IsDict(d) /\ DictHas(d, key) THEN DictAt(d, key) ELSE Absent

\* C9: a findings field that is the empty string, absent or the empty list
\* leaves its reason out of the reasons.
C9_EmptyFindingsPass ==
    (ReturnedVerdict /\ NoExtractionError)
    => \A fr \in FindingsFields :
          FieldOf(PetOf(row), fr[1]) \in {PyStr(""), Absent, EmptyList} => ~Recorded(fr[2])

\* a findings value that is no list and that json.loads does not turn into
\* a list: no str, or a str that does not parse, or that parses to another type
NotAList(v) ==
    /\ v.t \notin {"absent", "null", "list"}
    /\ IsStr(v) => LET parsed == json_loads(v.s) IN ~parsed.ok \/ ~IsList(parsed.v)

\* C10: a findings value that is present, is not a list and does not parse
\* to a list is taken as non-empty: the reason of its rule is recorded.
C10_UnparsedFindingsFail ==
    (ReturnedVerdict /\ NoExtractionError)
    => \A fr \in FindingsFields :
          NotAList(FieldOf(PetOf(row), fr[1])) => Recorded(fr[2])
\* a malformed JSON string in the lymph-node field
C10_Witness ==
    /\ ReturnedVerdict /\ NoExtractionError
    /\ FieldOf(PetOf(row), "Lymph_Nodes_Hypermetabolic_Regions") = PyStr("{bad")
    /\ Recorded("pet_lymph_hypermetabolic")

\* ------------------------------------------------------------------------
\* Properties of _extract_with_retry (SpecRetry)
\* ------------------------------------------------------------------------
Failed(resp) == AttemptResult(resp).raised
Max(a, b) == IF a > b THEN a ELSE b

\* C4: a call issues at most `retries` requests; every request before the
\* last one failed (no request follows a success); a call that returns after
\* a request returns the parsed answer of its last request, which succeeded;
\* a call raises only when `retries` requests all failed, with the exception
\* of the last one, and it does raise then.
C4_RetryContract ==
    retry.status = "called"
    => LET h == retry.hist
           n == Len(retry.hist)
           c == retry.call
       IN  /\ c.requests = n
           /\ n <= Max(retry.retries, 0)
           /\ \A i \in 1..(n - 1) : Failed(h[i])
           /\ (c.status = "returned" /\ n > 0)
                => ~Failed(h[n]) /\ c.v = AttemptResult(h[n]).v
           /\ c.status = "raised"
                => n = retry.retries /\ Failed(h[n]) /\ c.exc = AttemptResult(h[n]).exc
           /\ (n >= 1 /\ n = retry.retries /\ Failed(h[n])) => c.status = "raised"
           /\ c.status = "running" => n < retry.retries
\* two failures, then an answer on the third attempt: the answer is returned
C4_Witness ==
    /\ retry.status = "called" /\ retry.retries = 3
    /\ Len(retry.hist) = 3
    /\ Failed(retry.hist[1]) /\ Failed(retry.hist[2])
    /\ retry.hist[3] = TextResponse(ChestJson)
    /\ retry.call.status = "returned"
    /\ retry.call.v = PyDict(<<KV("CT_Regions", PyList(<<PyStr("Chest")>>))>>)

\* ------------------------------------------------------------------------
\* Properties of run_extraction (Spec)
\* ------------------------------------------------------------------------
\* what the as_completed loop recorded for the pair of row position i
OwnResult(i) == ResultOf(WorkDf.index[i], task[i].outcome)
CarriesOwnResult(i) ==
    /\ out.df.rows[i]["ct_json"] = PyStr(json_dumps(OwnResult(i).ct_json))
    /\ out.df.rows[i]["pet_json"] = PyStr(json_dumps(OwnResult(i).pet_json))
    /\ out.df.rows[i]["extraction_error"] = PyStr(OwnResult(i).error)

\* C1: the returned table has the rows of the input table in their order,
\* and row i carries the ct_json, pet_json and extraction_error of the pair
\* of input row i, whatever the index labels and the completion order.
C1_RowsKeepOwnResults ==
    pc = "returned"
    => /\ out.df.index = WorkDf.index
       /\ NRows(out.df) = NRows(WorkDf)
       /\ \A i \in 1..NRows(WorkDf) :
            /\ \A c \in SeqRange(CandidateColumns) : out.df.rows[i][c] = WorkDf.rows[i][c]
            /\ CarriesOwnResult(i)

\* C2: once past the api_key check, run_extraction returns a table with
\* every input row whatever the pairs' outcomes are, and a row whose own
\* pair succeeded carries its own result whatever happened to the others.
C2_FailureIsolated ==
    (pc \in {"returned", "raised"} /\ LlmGet(llm, "api_key", "") # "")
    => /\ pc = "returned"
       /\ NRows(out.df) = NRows(WorkDf)
       /\ \A i \in 1..NRows(WorkDf) : ~task[i].outcome.raised => CarriesOwnResult(i)

\* C3: in the returned table, the row of a pair whose extraction raised has
\* ct_json and pet_json "{}" and a non-empty extraction_error; the row of a
\* pair that succeeded has the empty extraction_error; and an empty ct_json
\* without an error comes from an answer of the model (with retries < 1 no
\* request is issued at all).
C3_FailureRecorded ==
    pc = "returned"
    => \A i \in 1..NRows(WorkDf) :
          LET r == out.df.rows[i]
          IN  /\ task[i].outcome.raised
                  => /\ r["ct_json"] = PyStr("{}") /\ r["pet_json"] = PyStr("{}")
                     /\ IsStr(r["extraction_error"]) /\ r["extraction_error"].s # ""
              /\ ~task[i].outcome.raised => r["extraction_error"] = PyStr("")
              /\ (r["ct_json"] = PyStr("{}") /\ r["extraction_error"] = PyStr(""))
                  => CfgRetries(llm) >= 1

\* the results in the order in which lines 116-125 attach them to the rows
Attached == SortedByIdx(results)
ObservedKeys(jsons) == UNION {DictKeys(jsons[i]) : i \in 1..Len(jsons)}
\* the names of the flattened columns of the observed keys, in the order the
\* spec gives: expected keys by priority, then the other keys sorted
FlatNames(prefix, expected, observed) ==
    LET first == SelectSeq(expected, LAMBDA key : key \in observed)
        rest == SortedStrs(observed \ SeqRange(expected))
    IN  [i \in 1..(Len(first) + Len(rest)) |->
            prefix \o (IF i <= Len(first) THEN first[i] ELSE rest[i - Len(first)])]
\* what a flattened cell holds for a result and a key
FlatCell(json, key) ==
    IF ~DictHas(json, key) \/ IsNone(DictAt(json, key)) THEN PyStr("")
    ELSE IF DictAt(json, key).t \in {"dict", "list"} THEN PyStr(json_dumps(DictAt(json, key)))
    ELSE DictAt(json, key)
Flattened(prefix, expected, jsons) ==
    LET observed == ObservedKeys(jsons)
        names == FlatNames(prefix, expected, observed)
    IN  /\ \A key \in observed :
             /\ prefix \o key \in SeqRange(out.df.columns)
             /\ \A i \in 1..NRows(out.df) :
                    out.df.rows[i][prefix \o key] = FlatCell(jsons[i], key)
        /\ SelectSeq(out.df.columns, LAMBDA c : c \in SeqRange(names)) = names

\* C12: in the returned table every key observed in a CT (PET) result is a
\* column ct_<key> (pet_<key>) with a cell in every row, "" where the row's
\* result lacks the key or holds null; these columns stand in the order:
\* expected keys by priority, then the other keys sorted.
C12_FlattenedColumns ==
    pc = "returned"
    => /\ Flattened("ct_", _EXPECTED_CT_KEYS, [i \in 1..Len(Attached) |-> Attached[i].ct_json])
       /\ Flattened("pet_", _EXPECTED_PET_KEYS, [i \in 1..Len(Attached) |-> Attached[i].pet_json])

Yielded == {p \in 1..Len(task) : task[p].st = "yielded"}
TaskResult(p) == ResultOf(WorkDf.index[p], task[p].outcome)
\* results holds the result of every yielded task once, and nothing else
OneResultPerYielded ==
    /\ Len(results) = Cardinality(Yielded)
    /\ \A p \in Yielded :
          Cardinality({k \in 1..Len(results) : results[k] = TaskResult(p)})
            = Cardinality({q \in Yielded : TaskResult(q) = TaskResult(p)})

\* C13: the output table exists and artifacts are written only when every
\* pair of the table has resolved and been collected, and results then holds
\* exactly one result per input row; before that, one per collected pair.
C13_NoPartialResult ==
    /\ OneResultPerYielded
    /\ (out.status = "returned" \/ Len(fs.writes) > 0 \/ DOMAIN fs.files # {})
        => /\ Len(task) = NRows(WorkDf)
           /\ Yielded = 1..Len(task)
           /\ Len(results) = NRows(WorkDf)
\* a returned two-row run whose second pair completed first, one pair failed
C13_Witness ==
    /\ pc = "returned" /\ NRows(WorkDf) = 2 /\ Len(fs.writes) = 4
    /\ results[1] = TaskResult(2) /\ results[2] = TaskResult(1)
    /\ task[1].outcome.raised /\ ~task[2].outcome.raised

Submitted(p) == p \in DOMAIN task /\ task[p].st # "new"
Terminal(p) == p \in DOMAIN task /\ task[p].st \in {"done", "yielded"}
\* C14: when every request is answered, every submitted pair reaches a
\* terminal outcome, and a run that got past the api_key check returns.
C14_EventuallyReturns ==
    /\ \A p \in 1..NumRows : Submitted(p) ~> Terminal(p)
    /\ (pc \in {"submit", "collect"}) ~> (pc = "returned")
\* what the code does guarantee: every submitted pair resolves and is
\* collected, and the run ends, by returning or by raising
PairsResolveAndRunEnds ==
    /\ \A p \in 1..NumRows : Submitted(p) ~> (Terminal(p) /\ task[p].st = "yielded")
    /\ (pc \in {"submit", "collect"}) ~> (pc \in {"returned", "raised"})

\* the stages of a task, in the order a task goes through them
StageRank(st) ==
    CASE st = "new" -> 0 [] st = "queued" -> 1 [] st = "ct" -> 2
      [] st = "pet" -> 3 [] st = "done" -> 4 [] st = "yielded" -> 5
\* no task goes back to an earlier stage, so none is started a second time
TasksOnlyAdvance ==
    \A p \in DOMAIN task :
        p \in DOMAIN task' /\ StageRank(task'[p].st) >= StageRank(task[p].st)
\* C15: at every moment at most llm.concurrency pairs (default 6) are in
\* _extract_pair, and every row of the table has exactly one task, which is
\* started once.
C15_BoundedPool ==
    /\ [](/\ Cardinality(Running) <= CfgConcurrency(llm)
          /\ pc \in {"submit", "collect", "returned"} => Len(task) = NRows(WorkDf))
    /\ [][TasksOnlyAdvance]_vars
\* the pool is full (one worker, one pair in extraction) and the other pair
\* waits in the queue
C15_Witness ==
    /\ Len(task) = 2
    /\ Cardinality(Running) = CfgConcurrency(llm)
    /\ \E p \in 1..Len(task) : task[p].st = "queued"

\* C16: within one run no artifact path is written more than once.
C16_OneWritePerPath ==
    \A i, j \in 1..Len(fs.writes) :
        i # j => fs.writes[i].path # fs.writes[j].path

\* C17: the returned table has every candidate column, in place and with
\* the values of the input rows, and its ct_json / pet_json cells are the
\* serialized results of the rows.
C17_OnlyAppends ==
    pc = "returned"
    => /\ out.df.index = WorkDf.index
       /\ SubSeq(out.df.columns, 1, Len(WorkDf.columns)) = WorkDf.columns
       /\ \A i \in 1..NRows(WorkDf) :
            /\ \A c \in SeqRange(WorkDf.columns) : out.df.rows[i][c] = WorkDf.rows[i][c]
            /\ out.df.rows[i]["ct_json"] = PyStr(json_dumps(Attached[i].ct_json))
            /\ out.df.rows[i]["pet_json"] = PyStr(json_dumps(Attached[i].pet_json))

\* ------------------------------------------------------------------------
\* More properties of _extract_with_retry (SpecRetry)
\* ------------------------------------------------------------------------
\* the text between the first opening and the last closing brace, if any
HasBraced(text) ==
    /\ StrContains("{", text) /\ StrContains("}", text)
    /\ StrFind(text, "{") < StrRFind(text, "}")
Braced(text) == StrSlice(text, StrFind(text, "{"), StrRFind(text, "}") + 1)
\* what the two stages give for a response text: [ok, v]
TwoStage(text0) ==
    Bind(StrStrip(text0), LAMBDA text :
    Bind(json_loads(text), LAMBDA strict :
        IF strict.ok THEN strict
        ELSE IF HasBraced(text) THEN json_loads(Braced(text))
        ELSE [ok |-> FALSE]))
\* the attempt that got answer number i went on to another attempt or raised
CountedAsFailed(i) ==
    IF i < Len(retry.hist) THEN TRUE
    ELSE retry.call.status \in {"running", "raised"}
\* C18: every text the model answered was parsed in two stages (strictly
\* after stripping, else from the first opening to the last closing brace):
\* when a stage succeeds the call returns its value, and when both fail or
\* there is no braced substring the attempt counts as failed.
C18_TwoStageParse ==
    retry.status = "called"
    => \A i \in 1..Len(retry.hist) :
          retry.hist[i].kind = "text"
          => IF TwoStage(retry.hist[i].text).ok
             THEN /\ i = Len(retry.hist)
                  /\ retry.call.status = "returned"
                  /\ retry.call.v = TwoStage(retry.hist[i].text).v
             ELSE CountedAsFailed(i)
\* a truncated answer, an answer whose braced part is no JSON, then an answer
\* wrapped in prose: the third attempt returns the object inside the prose
C18_Witness ==
    /\ retry.status = "called" /\ retry.retries = 3
    /\ retry.hist = << TextResponse("{\"CT_Regions\": [\"Che"),
                       TextResponse("Sure: {CT} "),
                       TextResponse("Result: " \o ChestJson \o " \n") >>
    /\ retry.call.status = "returned"
    /\ retry.call.v = PyDict(<<KV("CT_Regions", PyList(<<PyStr("Chest")>>))>>)

\* the attempts that failed and were not the last one allowed
FailedBeforeLast ==
    {k \in 1..Len(retry.hist) : Failed(retry.hist[k]) /\ k < retry.retries}
\* C19: the call has slept once after every failed attempt k < retries, for
\* 2^k seconds, and at no other time: not before the first attempt, not
\* after a success, not after the final failure.
C19_DoublingBackoff ==
    retry.status = "called"
    => /\ Len(retry.call.sleeps) = Cardinality(FailedBeforeLast)
       /\ FailedBeforeLast = 1..Len(retry.call.sleeps)
       /\ \A k \in 1..Len(retry.call.sleeps) : retry.call.sleeps[k] = 2 ^ k
\* four attempts allowed and four failures: the waits were 2, 4 and 8
\* seconds, and the call raised without a fourth wait
C19_Witness ==
    /\ retry.status = "called" /\ retry.retries = 4
    /\ Len(retry.hist) = 4
    /\ retry.call.status = "raised"
    /\ retry.call.sleeps = <<2, 4, 8>>

\* ------------------------------------------------------------------------
\* Properties of the configuration checks (SpecQuery, Spec)
\* ------------------------------------------------------------------------
\* C20: when the project, the dataset or the table is missing from
\* cfg.bigquery, building the query raises and no query is sent.
C20_ConfigErrorsFatal ==
    \A k \in BqKeys :
        (bq.status \in {"built", "raised", "sent"} /\ ~Truthy(BqGet(bq.bigquery, k)))
        => bq.status = "raised" /\ bq.sent = <<>>
\* what the code does check: the dataset and the table
DatasetAndTableRequired ==
    \A k \in {"dataset", "table"} :
        (bq.status \in {"built", "raised", "sent"} /\ ~Truthy(BqGet(bq.bigquery, k)))
        => bq.status = "raised" /\ bq.sent = <<>>
\* without an api key run_extraction raises at once: no directory, no file,
\* no task, no request
ApiKeyCheckedFirst ==
    (pc # "start" /\ LlmGet(llm, "api_key", "") = "")
    => /\ pc = "raised" /\ out = [status |-> "raised", exc |-> "OPENAI_API_KEY is not set"]
       /\ fs = [dirs |-> {}, files |-> <<>>, writes |-> <<>>]
       /\ task = <<>> /\ results = <<>>

\* ------------------------------------------------------------------------
\* Properties of apply_selection (SpecApply)
\* ------------------------------------------------------------------------
VerdictOf(k) == evaluate_row(ap.df.rows[k]).v
\* the positions of the input rows whose verdict is True, in input order
RECURSIVE IncludedUpTo(_)
IncludedUpTo(n) ==
    IF n = 0 THEN <<>>
    ELSE IF VerdictOf(n).include THEN Append(IncludedUpTo(n - 1), n)
    ELSE IncludedUpTo(n - 1)
\* the reasons string read back: split at the semicolons
SplitSemi(str) ==
    LET semis == {i \in 1..Len(str) : CharAt(str, i) = ";"}
        nth(k) == CHOOSE i \in semis : Cardinality({j \in semis : j < i}) = k - 1
        n == Cardinality(semis) + 1
    IN  IF Len(str) = 0 THEN <<>>
        ELSE [k \in 1..n |->
                SubSeq(str, IF k = 1 THEN 1 ELSE nth(k - 1) + 1,
                            IF k = n THEN Len(str) ELSE nth(k) - 1)]
AuditTableRight ==
    /\ NRows(ap.audit_df) = NRows(ap.df)
    /\ \A k \in 1..NRows(ap.df) :
          /\ ap.audit_df.rows[k].selected = PyBool(VerdictOf(k).include)
          /\ SplitSemi(ap.audit_df.rows[k].reasons.s) = VerdictOf(k).reasons
          /\ (ap.audit_df.rows[k].reasons.s = "") <=> VerdictOf(k).include
          /\ ap.audit_df.rows[k].pt_study_uid = ap.df.rows[k].pt_study_uid
SelectedTableRight ==
    LET inc == IncludedUpTo(NRows(ap.df))
    IN  /\ ap.selected_df.rows = [k \in 1..Len(inc) |-> ap.df.rows[inc[k]]]
        /\ ap.selected_df.index = [k \in 1..Len(inc) |-> ap.df.index[inc[k]]]
        /\ Len(inc) > 0 => ap.selected_df.columns = ap.df.columns
\* what holds whenever apply_selection returns
ReturnedTablesRight == ap.status = "returned" => AuditTableRight /\ SelectedTableRight
\* C21: apply_selection returns; the audit table has one row per input row,
\* in order, with the row's verdict and its reasons joined by semicolons
\* (empty exactly when selected); the selected table holds exactly the rows
\* whose verdict is True, in order, with their columns.
C21_AuditAndSelected ==
    ap.status \in {"returned", "raised"}
    => ap.status = "returned" /\ AuditTableRight /\ SelectedTableRight

\* ------------------------------------------------------------------------
\* Properties of the run directories (SpecRunDirs)
\* ------------------------------------------------------------------------
\* C22: no two invocations have the same run directory, and no invocation
\* replaces a file another invocation wrote.
C22_FreshRunDir ==
    /\ \A j, k \in 1..Len(rd.invs) : j # k => rd.invs[j].dir # rd.invs[k].dir
    /\ rd.clobbered = {}
\* what does hold: with a dated template, invocations without a run_name
\* that start in different seconds have different directories
DatedDirsDiffer ==
    rd.template.dated
    => \A j, k \in 1..Len(rd.invs) :
          (rd.invs[j].run_name = "" /\ rd.invs[k].run_name = ""
             /\ rd.invs[j].at # rd.invs[k].at)
          => rd.invs[j].dir # rd.invs[k].dir

\* ------------------------------------------------------------------------
\* Properties of the legacy extraction script (SpecLegacy)
\* ------------------------------------------------------------------------
\* the lines of the output CSV whose pt_row_id cell is id, blanks aside
CsvRowsOf(id) == {i \in 1..Len(lg.csv) : StrStrip(Cells(lg.csv[i])[1]) = id}
\* C23: across the runs and under every interleaving, each pt_row_id is
\* appended to the output CSV at most once (stated for the executions in
\* which no append was cut by a write error).
C23_AtMostOnceAppend ==
    lg.cuts = 0
    => \A r \in 1..LegacyRowCount : Cardinality(CsvRowsOf(RowId(lg.rows[r]))) <= 1
\* what does hold: while no append was cut by a write error, a pt_row_id
\* without surrounding blanks that no other row of the input has is appended
\* at most once
UniqueCleanIdOnce ==
    \A r \in 1..LegacyRowCount :
        (/\ lg.cuts = 0
         /\ lg.rows[r].pt_row_id.s = RowId(lg.rows[r])
         /\ \A q \in 1..LegacyRowCount : q # r => RowId(lg.rows[q]) # RowId(lg.rows[r]))
        => Cardinality(CsvRowsOf(RowId(lg.rows[r]))) <= 1

InCritical(t) == lg.threads[t].pc \in {"in_check", "appending"}
\* C24: no two worker threads are at the same time inside a section that
\* appends to the output CSV or updates the processed set; the CSV and the
\* set change only in a step of the thread that holds csv_lock, and a thread
\* that leaves the section, also by a write error, leaves the lock free.
C24_LockGuardsAppends ==
    /\ [](\A t \in 1..Len(lg.threads) : InCritical(t) => lg.lock = t)
    /\ [][(lg'.csv # lg.csv \/ (lg'.processed # lg.processed /\ lg'.run = lg.run))
          => \E t \in 1..Len(lg.threads) :
                lg.lock = t /\ lg.threads[t].pc = "appending" /\ lg'.lock = 0]_vars
    /\ [][\A t \in 1..Len(lg.threads) :
            (InCritical(t) /\ lg'.run = lg.run /\ lg'.threads[t].pc # lg.threads[t].pc)
            => lg'.lock = 0]_vars
\* one thread is appending while another, ready to append, waits for the lock
C24_Witness ==
    /\ Len(lg.threads) = 2
    /\ lg.threads[1].pc = "appending" /\ lg.lock = 1
    /\ lg.threads[2].pc = "ready"

\* row['success'] of a thread that is ready to append
Success(th) == th.row.success.b
\* a whole line of an earlier run has the row's pt_row_id cell and False in
\* its success cell
EarlierFailure(th) ==
    LET header == all_columns(lg.columns) IN
    \E i \in 1..Len(lg.csv) :
        /\ lg.csv[i].run < lg.run
        /\ ~lg.csv[i].open
        /\ Len(Cells(lg.csv[i])) = Len(header)
        /\ Cells(lg.csv[i])[ColumnAt(header, "pt_row_id")] = th.row.pt_row_id.s
        /\ Cells(lg.csv[i])[ColumnAt(header, "success")] = "False"
FailedRowsStay(threads) ==
    \A t \in threads :
        LET th == lg.threads[t] IN
        /\ (th.pc \in {"ready", "appending", "done"}
              /\ (Kind(th.row) = "no_report" \/ th.failed = MAX_RETRIES))
           => ~Success(th)
        /\ th.pc = "done"
           => /\ \E i \in 1..Len(lg.csv) :
                    lg.csv[i] = [text |-> RowLine(th.row, all_columns(lg.columns)),
                                 run |-> lg.run, open |-> FALSE]
              /\ RowId(th.row) \in lg.processed
        /\ EarlierFailure(th) => th.pc \in {"start", "in_check", "skipped"}
\* C28: a row without report text, or whose extraction failed on all
\* attempts, is appended with success = False and its id added to the
\* processed set, and on every later run it is skipped, never attempted again
\* (stated for the executions in which no append was cut by a write error).
C28_FailedRowsStayProcessed == lg.cuts = 0 => FailedRowsStay(1..Len(lg.threads))
\* what does hold: the same, while no append was cut by a write error, for
\* the rows whose pt_row_id cell has no surrounding blanks
CleanFailedRowsStay ==
    lg.cuts = 0
    => FailedRowsStay({t \in 1..Len(lg.threads) :
                         lg.threads[t].row.pt_row_id.s = RowId(lg.threads[t].row)})

\* ------------------------------------------------------------------------
\* Properties of select and run on the same extracted table (SpecCli)
\* ------------------------------------------------------------------------
\* C25: select on the extracted_pairs.csv that extract wrote gives every row
\* the verdict and the reasons that apply_selection gives it on the
\* extracted table in memory, as run does.
C25_SelectEqualsRun ==
    (ap.selected /\ ap.select_from = "extract" /\ ap.ran) => ap.select_out = ap.run_out
\* what does hold: select gives every row a verdict, and on the rows run
\* gets to the two differ only where extraction_error is the empty string,
\* which select excludes as extraction_error
DifferOnlyOnCleanRows ==
    (ap.selected /\ ap.ran)
    => /\ Len(ap.select_out) = NRows(ap.df)
       /\ Len(ap.run_out) <= NRows(ap.df)
       /\ \A k \in 1..Len(ap.run_out) :
            ap.select_out[k] # ap.run_out[k]
            => /\ ap.df.rows[k].extraction_error = PyStr("")
               /\ ap.select_out[k] = Verdict(FALSE, <<"extraction_error">>)

\* ------------------------------------------------------------------------
\* Properties of _extract_with_retry for every configured retries (SpecRetry)
\* ------------------------------------------------------------------------
ReturnedAfterRequest ==
    /\ retry.call.requests >= 1
    /\ Len(retry.hist) = retry.call.requests
    /\ AttemptResult(retry.hist[Len(retry.hist)]) = Returned(retry.call.v)
RetryReturned == retry.status = "called" /\ retry.call.status = "returned"
\* C26: for every configured retries, 0 and negative values included,
\* _extract_with_retry returns only after a request was issued, and what it
\* returns is the parsed answer to its last request.
C26_NoSilentEmptyResult == RetryReturned => ReturnedAfterRequest
\* what does hold: the same when retries is at least 1
ReturnsAfterRequestWhenPositive ==
    (RetryReturned /\ retry.retries >= 1) => ReturnedAfterRequest

\* ------------------------------------------------------------------------
\* Properties of one pair's requests (SpecPair)
\* ------------------------------------------------------------------------
ReqsOf(kind) == {i \in 1..Len(retry.reqs) : retry.reqs[i].kind = kind}
Answered(i) == ~AttemptResult(retry.reqs[i].resp).raised
\* C27: within one pair every PET request comes after a CT request that was
\* answered with a parsable result, which is the pair's last CT request; when
\* all the CT attempts failed there is no PET request; and the pair issues at
\* most retries requests per extraction, at most 2 x retries in total (none
\* when retries is not positive).
C27_SequentialPair ==
    /\ \A i \in ReqsOf("pet") :
          \E j \in ReqsOf("ct") :
              /\ j < i /\ Answered(j)
              /\ \A k \in ReqsOf("ct") : k <= j
    /\ (\A j \in ReqsOf("ct") : ~Answered(j)) => ReqsOf("pet") = {}
    /\ \A kind \in {"ct", "pet"} :
          Cardinality(ReqsOf(kind)) <= retry.retries \/ ReqsOf(kind) = {}
    /\ Len(retry.reqs) <= 2 * retry.retries \/ Len(retry.reqs) = 0
\* a pair that used every attempt of both extractions: the last CT attempt
\* was answered, the PET attempts all failed
C27_Witness ==
    /\ retry.status = "pair" /\ retry.retries >= 2
    /\ Len(retry.reqs) = 2 * retry.retries
    /\ retry.reqs[retry.retries].kind = "ct" /\ ~Answered(1) /\ Answered(retry.retries)
    /\ retry.reqs[Len(retry.reqs)].kind = "pet" /\ ~Answered(Len(retry.reqs))
    /\ retry.task.st = "done" /\ retry.task.outcome.raised

\* ------------------------------------------------------------------------
\* Properties of match_and_rename_by_z (SpecMatch)
\* ------------------------------------------------------------------------
FilesIn(files, folder) == {f \in files : f[1] = folder}
\* no rename has replaced a file: each folder holds as many files as before
NoFileLost ==
    \A folder \in {"ct", "pet"} :
        Cardinality(FilesIn(md.exists, folder)) = Cardinality(FilesIn(md.existed, folder))
\* C29: a target name that already exists is not renamed onto and gets a
\* recorded warning, and the loop goes on with the remaining slices and
\* studies up to the final summary: the function never raises.
C29_ExistingTargetSkipped ==
    /\ md.status # "raised"
    /\ NoFileLost
\* what does hold: no file is replaced, and the function raises only at a
\* slice whose target name exists in a folder when its turn comes
RaisesAtFirstExisting ==
    /\ NoFileLost
    /\ md.status = "raised"
       => (/\ md.pos < MaxStudies * SlicesPerStudy
           /\ SliceAt(md.pos) \notin md.too_far
           /\ \E f \in {"ct", "pet"} : <<f, TargetName(SliceAt(md.pos))>> \in md.exists)

\* ------------------------------------------------------------------------
\* Properties of the PET batch merge (SpecMerge)
\* ------------------------------------------------------------------------
SeriesComplete(s) ==
    /\ mg.output[s].files = 1..mg.files[s]
    /\ mg.output[s].partial = {}
    /\ mg.output[s].metadata
\* C30: after a run that was cut at any point and a complete run after it,
\* in which every copy succeeded, every series of the input has all its
\* DICOM files and its series_metadata.json in the output directory.
C30_RerunCompletes ==
    (mg.status = "finished" /\ mg.run = 2 /\ mg.skipped = {})
    => \A s \in 1..NumSeries : SeriesComplete(s)
\* what does hold: after the last run every series is complete except the
\* one whose directory the first run had created when it was cut, and those
\* with a file that could not be copied
OnlyCutSeriesIncomplete ==
    mg.status = "finished"
    => \A s \in 1..NumSeries :
          (s # mg.cut /\ \A k \in 1..mg.files[s] : <<s, k>> \notin mg.skipped)
          => SeriesComplete(s)

====
